---- MODULE Spec2Model ----
(***************************************************************************)
(* A model of the html5ever tokenizer (src/src/tokenizer/mod.rs).          *)
(*                                                                         *)
(* Characters are one-symbol strings, Rust strings are sequences of        *)
(* characters, Option<T> is a sequence of length at most one.  A function  *)
(* taking &mut self becomes an operator from the tokenizer record to the   *)
(* tokenizer record; its return value travels in the field ret.            *)
(***************************************************************************)
EXTENDS Integers, Sequences, FiniteSets, TLC

VARIABLES tok, fed, phase, last, dropped

vars == <<tok, fed, phase, last, dropped>>

-----------------------------------------------------------------------------
(* Option<T> *)

None == <<>>

Some(x) == <<x>>

IsSome(o) == Len(o) = 1

Unwrap(o) == o[1]

-----------------------------------------------------------------------------
(* Characters *)

NUL == "U+0000"

REPL == "U+FFFD"

BOM == "U+FEFF"

SOH == "U+0001"

CR == "\r"

LF == "\n"

TAB == "\t"

FF == "\f"

SP == " "

GRAVE == "U+0060"

LowerLetters ==
    {"a","b","c","d","e","f","g","h","i","j","k","l","m",
     "n","o","p","q","r","s","t","u","v","w","x","y","z"}

UpperLetters ==
    {"A","B","C","D","E","F","G","H","I","J","K","L","M",
     "N","O","P","Q","R","S","T","U","V","W","X","Y","Z"}

Digits == {"0","1","2","3","4","5","6","7","8","9"}

ToLower ==
    [c \in UpperLetters |->
        CASE c = "A" -> "a" [] c = "B" -> "b" [] c = "C" -> "c" [] c = "D" -> "d"
          [] c = "E" -> "e" [] c = "F" -> "f" [] c = "G" -> "g" [] c = "H" -> "h"
          [] c = "I" -> "i" [] c = "J" -> "j" [] c = "K" -> "k" [] c = "L" -> "l"
          [] c = "M" -> "m" [] c = "N" -> "n" [] c = "O" -> "o" [] c = "P" -> "p"
          [] c = "Q" -> "q" [] c = "R" -> "r" [] c = "S" -> "s" [] c = "T" -> "t"
          [] c = "U" -> "u" [] c = "V" -> "v" [] c = "W" -> "w" [] c = "X" -> "x"
          [] c = "Y" -> "y" [] c = "Z" -> "z"]

\* util::str::lower_ascii: ASCII upper case to lower case, anything else kept.
lower_ascii(c) == IF c \in UpperLetters THEN ToLower[c] ELSE c

\* util::str::lower_ascii_letter: Some(lower case letter) for an ASCII letter.
lower_ascii_letter(c) ==
    IF c \in UpperLetters THEN Some(ToLower[c])
    ELSE IF c \in LowerLetters THEN Some(c)
    ELSE None

is_ascii_alnum(c) == c \in LowerLetters \cup UpperLetters \cup Digits

\* str::eq_ignore_ascii_case against a lower-case keyword.
eq_ignore_ascii_case(s, kw) ==
    /\ Len(s) = Len(kw)
    /\ \A i \in 1..Len(s) : lower_ascii(s[i]) = kw[i]

Whitespace == {TAB, LF, FF, SP}

\* The control characters and noncharacters get_preprocessed_char reports
\* under exact_errors, as far as the model's alphabet holds them.
BadChars == {SOH}

-----------------------------------------------------------------------------
(* Tokenizer states (tokenizer::states::State) *)

Rcdata == <<"Rcdata">>

Rawtext == <<"Rawtext">>

ScriptData == <<"ScriptData">>

Escaped == "Escaped"

DoubleEscaped == "DoubleEscaped"

ScriptDataEscaped(e) == <<"ScriptDataEscaped", e>>

Public == "Public"

System == "System"

Unquoted == "Unquoted"

SingleQuoted == "SingleQuoted"

DoubleQuoted == "DoubleQuoted"

St(name) == <<name>>

Data == St("Data")

Plaintext == St("Plaintext")

RawData(kind) == <<"RawData">> \o kind

RawLessThanSign(kind) == <<"RawLessThanSign">> \o kind

RawEndTagOpen(kind) == <<"RawEndTagOpen">> \o kind

RawEndTagName(kind) == <<"RawEndTagName">> \o kind

StK(name, k) == <<name, k>>

RawKindOf(s) == Tail(s)

RawKinds == {Rcdata, Rawtext, ScriptData, ScriptDataEscaped(Escaped), ScriptDataEscaped(DoubleEscaped)}

-----------------------------------------------------------------------------
(* Tokens (tokenizer::interface::Token) *)

StartTag == "StartTag"

EndTag == "EndTag"

CharacterTokens(s) == <<"CharacterTokens", s>>

NullCharacterToken == <<"NullCharacterToken">>

EOFToken == <<"EOFToken">>

ParseError(msg) == <<"ParseError", msg>>

CommentToken(s) == <<"CommentToken", s>>

TagToken(kind, name, self_closing, attrs) == <<"TagToken", name, kind, self_closing, attrs>>

DoctypeToken(d) == <<"DoctypeToken", d.name, d.public_id, d.system_id, d.force_quirks>>

Attribute(name, value) == [name |-> name, value |-> value]

NewDoctype == [name |-> None, public_id |-> None, system_id |-> None, force_quirks |-> FALSE]

-----------------------------------------------------------------------------
(* BufferQueue (tokenizer::buffer_queue): an ordered queue of non-empty     *)
(* strings.  The cursor into the front buffer is modelled by dropping the   *)
(* consumed prefix.                                                         *)

RECURSIVE bq_available(_)
bq_available(q) == IF q = <<>> THEN 0 ELSE Len(Head(q)) + bq_available(Tail(q))

\* push_back(buf, start_offset): append buf without its first start_offset
\* characters; an empty remainder is not queued.
bq_push_back(q, buf, start) ==
    IF start >= Len(buf) THEN q ELSE Append(q, SubSeq(buf, start + 1, Len(buf)))

bq_push_front(q, buf) == IF buf = <<>> THEN q ELSE <<buf>> \o q

bq_peek(q) == IF q = <<>> THEN None ELSE Some(Head(q)[1])

\* The queue after one character was popped from its front buffer.
bq_advance(q, n) ==
    IF n >= Len(Head(q)) THEN Tail(q)
    ELSE <<SubSeq(Head(q), n + 1, Len(Head(q)))>> \o Tail(q)

bq_next(q) ==
    IF q = <<>> THEN [q |-> q, r |-> None]
    ELSE [q |-> bq_advance(q, 1), r |-> Some(Head(q)[1])]

\* Length of the longest prefix of buf holding no character of set.
RECURSIVE nonmember_prefix_len(_, _)
nonmember_prefix_len(buf, set) ==
    IF buf = <<>> \/ Head(buf) \in set THEN 0
    ELSE 1 + nonmember_prefix_len(Tail(buf), set)

FromSet(c) == <<"FromSet", c>>

NotFromSet(b) == <<"NotFromSet", b>>

\* pop_except_from(set): FromSet(c) when the next character is in set, else
\* NotFromSet(run), the maximal run of the front buffer outside set.
bq_pop_except_from(q, set) ==
    IF q = <<>> THEN [q |-> q, r |-> None]
    ELSE LET n == nonmember_prefix_len(Head(q), set) IN
         IF n > 0
         THEN [q |-> bq_advance(q, n), r |-> Some(NotFromSet(SubSeq(Head(q), 1, n)))]
         ELSE [q |-> bq_advance(q, 1), r |-> Some(FromSet(Head(q)[1]))]

bq_has(q, n) == bq_available(q) >= n

RECURSIVE bq_flatten(_)
bq_flatten(q) == IF q = <<>> THEN <<>> ELSE Head(q) \o bq_flatten(Tail(q))

RECURSIVE bq_drop(_, _)
bq_drop(q, n) == IF n = 0 THEN q ELSE bq_drop(bq_advance(q, 1), n - 1)

\* pop_front(n): exactly n characters when that many are buffered, else
\* nothing, the queue untouched.
bq_pop_front(q, n) ==
    IF ~bq_has(q, n) THEN [q |-> q, r |-> None]
    ELSE [q |-> bq_drop(q, n), r |-> Some(SubSeq(bq_flatten(q), 1, n))]

-----------------------------------------------------------------------------
(* The token sink.  process_token appends to the sink's log;                *)
(* query_state_change answers by the sink's policy: the state it asks for   *)
(* after a start tag of the policy's name, None after any other.  The sink  *)
(* notes each call of query_state_change in queries, as the number of       *)
(* tokens it had received when it was asked.                                *)

NoPolicy == [name |-> <<>>, answer |-> None]

sink_process_token(sink, token) == [sink EXCEPT !.tokens = Append(@, token)]

sink_query_state_change(sink) ==
    LET t == sink.tokens[Len(sink.tokens)] IN
    IF t[1] = "TagToken" /\ t[2] = sink.policy.name THEN sink.policy.answer ELSE None

\* The sink once query_state_change has been called on it
sink_queried(sink) == [sink EXCEPT !.queries = Append(@, Len(sink.tokens))]

-----------------------------------------------------------------------------
(* Tokenizer: construction, emission, accumulators *)

TokenizerOpts(exact_errors, discard_bom, initial_state, last_start_tag_name) ==
    [exact_errors |-> exact_errors, discard_bom |-> discard_bom,
     initial_state |-> initial_state, last_start_tag_name |-> last_start_tag_name]

DefaultOpts == TokenizerOpts(FALSE, TRUE, None, None)

Tokenizer_new(policy, opts) ==
    [opts |-> opts,
     sink |-> [tokens |-> <<>>, policy |-> policy, queries |-> <<>>],
     state |-> IF IsSome(opts.initial_state) THEN Unwrap(opts.initial_state) ELSE Data,
     wait_for |-> None,
     char_ref_tokenizer |-> None,
     input_buffers |-> <<>>,
     at_eof |-> FALSE,
     current_char |-> NUL,
     reconsume |-> FALSE,
     ignore_lf |-> FALSE,
     discard_bom |-> opts.discard_bom,
     current_tag_kind |-> StartTag,
     current_tag_name |-> <<>>,
     current_tag_self_closing |-> FALSE,
     current_tag_attrs |-> <<>>,
     current_attr_name |-> <<>>,
     current_attr_value |-> <<>>,
     current_comment |-> <<>>,
     current_doctype |-> NewDoctype,
     last_start_tag_name |-> opts.last_start_tag_name,
     temp_buf |-> <<>>,
     panicked |-> FALSE,
     ret |-> FALSE]

Ret(m, v) == [m EXCEPT !.ret = v]

\* fail!(..) and a failed assert!: the thread unwinds.
Panic(m) == [m EXCEPT !.panicked = TRUE, !.ret = FALSE]

process_token(m, token) == [m EXCEPT !.sink = sink_process_token(@, token)]

emit_error(m, msg) == process_token(m, ParseError(msg))

\* bad_char_error that reports nothing
bad_char_error_silent(m) == m

bad_char_error(m) ==
    emit_error(m, IF m.opts.exact_errors
                  THEN <<"Saw", m.current_char, m.state>>
                  ELSE <<"Bad character">>)

bad_eof_error(m) ==
    emit_error(m, IF m.opts.exact_errors
                  THEN <<"Saw EOF", m.state>>
                  ELSE <<"Unexpected EOF">>)

\* emit_char that sends every character, U+0000 too, as a character token
emit_char_as_chars(m, c) == process_token(m, CharacterTokens(<<c>>))

emit_char(m, c) ==
    process_token(m, IF c = NUL THEN NullCharacterToken ELSE CharacterTokens(<<c>>))

emit_chars(m, b) == process_token(m, CharacterTokens(b))

\* finish_attribute without the check for a duplicate name
finish_attribute_keep_all(m) ==
    IF Len(m.current_attr_name) = 0 THEN m
    ELSE [m EXCEPT
             !.current_tag_attrs =
                 Append(@, Attribute(m.current_attr_name, m.current_attr_value)),
             !.current_attr_name = <<>>,
             !.current_attr_value = <<>>]

\* finish_attribute that gives the first occurrence the value of the duplicate
finish_attribute_last_wins(m) ==
    IF Len(m.current_attr_name) = 0 THEN m
    ELSE LET dup == \E i \in 1..Len(m.current_tag_attrs) :
                        m.current_tag_attrs[i].name = m.current_attr_name
         IN IF dup
            THEN [emit_error(m, <<"Duplicate attribute">>) EXCEPT
                     !.current_tag_attrs =
                         [i \in 1..Len(@) |->
                             IF @[i].name = m.current_attr_name
                             THEN Attribute(@[i].name, m.current_attr_value) ELSE @[i]],
                     !.current_attr_name = <<>>, !.current_attr_value = <<>>]
            ELSE [m EXCEPT
                     !.current_tag_attrs =
                         Append(@, Attribute(m.current_attr_name, m.current_attr_value)),
                     !.current_attr_name = <<>>,
                     !.current_attr_value = <<>>]

finish_attribute(m) ==
    IF Len(m.current_attr_name) = 0 THEN m
    ELSE LET dup == \E i \in 1..Len(m.current_tag_attrs) :
                        m.current_tag_attrs[i].name = m.current_attr_name
         IN IF dup
            THEN [emit_error(m, <<"Duplicate attribute">>) EXCEPT
                     !.current_attr_name = <<>>, !.current_attr_value = <<>>]
            ELSE [m EXCEPT
                     !.current_tag_attrs =
                         Append(@, Attribute(m.current_attr_name, m.current_attr_value)),
                     !.current_attr_name = <<>>,
                     !.current_attr_value = <<>>]

\* emit_current_tag that asks the sink after every tag, start or end
emit_current_tag_any_kind(m) ==
    LET m1 == finish_attribute(m)
        name == m1.current_tag_name
        m2 == [m1 EXCEPT !.current_tag_name = <<>>]
        m3 == IF m2.current_tag_kind = StartTag
              THEN [m2 EXCEPT !.last_start_tag_name = Some(name)]
              ELSE LET e1 == IF m2.current_tag_attrs # <<>>
                             THEN emit_error(m2, <<"Attributes on an end tag">>) ELSE m2
                   IN IF e1.current_tag_self_closing
                      THEN emit_error(e1, <<"Self-closing end tag">>) ELSE e1
        token == TagToken(m3.current_tag_kind, name, m3.current_tag_self_closing,
                          m3.current_tag_attrs)
        m4 == process_token([m3 EXCEPT !.current_tag_attrs = <<>>], token)
        q == sink_query_state_change(m4.sink)
    IN [m4 EXCEPT !.sink = sink_queried(@),
                  !.state = IF IsSome(q) THEN Unwrap(q) ELSE @]

emit_current_tag(m) ==
    LET m1 == finish_attribute(m)
        name == m1.current_tag_name
        m2 == [m1 EXCEPT !.current_tag_name = <<>>]
        m3 == IF m2.current_tag_kind = StartTag
              THEN [m2 EXCEPT !.last_start_tag_name = Some(name)]
              ELSE LET e1 == IF m2.current_tag_attrs # <<>>
                             THEN emit_error(m2, <<"Attributes on an end tag">>) ELSE m2
                   IN IF e1.current_tag_self_closing
                      THEN emit_error(e1, <<"Self-closing end tag">>) ELSE e1
        token == TagToken(m3.current_tag_kind, name, m3.current_tag_self_closing,
                          m3.current_tag_attrs)
        m4 == process_token([m3 EXCEPT !.current_tag_attrs = <<>>], token)
    IN IF m4.current_tag_kind = StartTag
       THEN LET q == sink_query_state_change(m4.sink)
            IN [m4 EXCEPT !.sink = sink_queried(@),
                          !.state = IF IsSome(q) THEN Unwrap(q) ELSE @]
       ELSE m4

emit_temp_buf(m) == emit_chars([m EXCEPT !.temp_buf = <<>>], m.temp_buf)

clear_temp_buf(m) == [m EXCEPT !.temp_buf = <<>>]

\* emit_current_comment that copies the comment and leaves it in place
emit_current_comment_kept(m) == process_token(m, CommentToken(m.current_comment))

emit_current_comment(m) ==
    process_token([m EXCEPT !.current_comment = <<>>], CommentToken(m.current_comment))

discard_tag(m) ==
    [m EXCEPT !.current_tag_name = <<>>, !.current_tag_self_closing = FALSE,
              !.current_tag_attrs = <<>>]

create_tag(m, kind, c) ==
    [discard_tag(m) EXCEPT !.current_tag_name = <<c>>, !.current_tag_kind = kind]

\* have_appropriate_end_tag that does not compare the names
have_appropriate_end_tag_any_name(m) ==
    /\ IsSome(m.last_start_tag_name)
    /\ m.current_tag_kind = EndTag

have_appropriate_end_tag(m) ==
    /\ IsSome(m.last_start_tag_name)
    /\ m.current_tag_kind = EndTag
    /\ m.current_tag_name = Unwrap(m.last_start_tag_name)

create_attribute(m, c) ==
    [finish_attribute(m) EXCEPT !.current_attr_name = Append(@, c)]

emit_current_doctype(m) ==
    process_token([m EXCEPT !.current_doctype = NewDoctype], DoctypeToken(m.current_doctype))

\* The field of current_doctype that doctype_id(kind) borrows.
doctype_id(kind) == IF kind = Public THEN "public_id" ELSE "system_id"

clear_doctype_id(m, kind) == [m EXCEPT !.current_doctype[doctype_id(kind)] = Some(<<>>)]

\* option_push_char that starts a new string whatever the option held
option_push_char_fresh(opt_str, c) == Some(<<c>>)

option_push_char(opt_str, c) ==
    IF IsSome(opt_str) THEN Some(Append(Unwrap(opt_str), c)) ELSE Some(<<c>>)

\* append_strings that takes rhs whatever lhs held
append_strings_taking_rhs(lhs, rhs) == rhs

append_strings(lhs, rhs) == IF lhs = <<>> THEN rhs ELSE lhs \o rhs

\* emit_eof that delivers the token twice
emit_eof_twice(m) == process_token(process_token(m, EOFToken), EOFToken)

emit_eof(m) == process_token(m, EOFToken)

\* A variant for comparison: the string is put behind the buffered input.
unconsume_behind(m, buf) == [m EXCEPT !.input_buffers = bq_push_back(@, buf, 0)]

unconsume(m, buf) == [m EXCEPT !.input_buffers = bq_push_front(@, buf)]

-----------------------------------------------------------------------------
(* Reading input *)

get_preprocessed_char(m, c0) ==
    LET skip == m.ignore_lf /\ c0 = LF
        nx == bq_next(m.input_buffers)
        m1 == IF m.ignore_lf THEN [m EXCEPT !.ignore_lf = FALSE] ELSE m
    IN IF skip /\ nx.r = None THEN Ret(m1, None)
       ELSE LET m2 == IF skip THEN [m1 EXCEPT !.input_buffers = nx.q] ELSE m1
                c1 == IF skip THEN Unwrap(nx.r) ELSE c0
                m3 == IF c1 = CR THEN [m2 EXCEPT !.ignore_lf = TRUE] ELSE m2
                c2 == IF c1 = CR THEN LF ELSE c1
                m4 == IF m3.opts.exact_errors /\ c2 \in BadChars
                      THEN emit_error(m3, <<"Bad character", c2>>) ELSE m3
            IN Ret([m4 EXCEPT !.current_char = c2], Some(c2))

\* get_char that hands out the character to reconsume and leaves the
\* flag set
get_char_keeps_reconsume(m) ==
    IF m.reconsume THEN Ret(m, Some(m.current_char))
    ELSE LET nx == bq_next(m.input_buffers) IN
         IF nx.r = None THEN Ret(m, None)
         ELSE get_preprocessed_char([m EXCEPT !.input_buffers = nx.q], Unwrap(nx.r))

get_char(m) ==
    IF m.reconsume THEN Ret([m EXCEPT !.reconsume = FALSE], Some(m.current_char))
    ELSE LET nx == bq_next(m.input_buffers) IN
         IF nx.r = None THEN Ret(m, None)
         ELSE get_preprocessed_char([m EXCEPT !.input_buffers = nx.q], Unwrap(nx.r))

\* Option::map(|x| FromSet(x)) on the value an input function returned.
MapFromSet(m) == IF m.ret = None THEN m ELSE Ret(m, Some(FromSet(Unwrap(m.ret))))

pop_except_from(m, set) ==
    IF m.opts.exact_errors \/ m.reconsume \/ m.ignore_lf
    THEN MapFromSet(get_char(m))
    ELSE LET d == bq_pop_except_from(m.input_buffers, set)
             m1 == [m EXCEPT !.input_buffers = d.q]
         IN IF d.r # None /\ Unwrap(d.r)[1] = "FromSet"
            THEN MapFromSet(get_preprocessed_char(m1, Unwrap(d.r)[2]))
            ELSE Ret(m1, d.r)

\* The predicates given to lookahead_and_consume: |s| s == kw and
\* |s| s.eq_ignore_ascii_case(kw), and what they say of a string.
Eq(kw) == [kw |-> kw, ignore_ascii_case |-> FALSE]

EqIgnoreAsciiCase(kw) == [kw |-> kw, ignore_ascii_case |-> TRUE]

Satisfies(p, s) == IF p.ignore_ascii_case THEN eq_ignore_ascii_case(s, p.kw) ELSE s = p.kw

\* lookahead_and_consume that waits for more input at EOF too
lookahead_and_consume_waits_at_eof(m, n, p) ==
    LET d == bq_pop_front(m.input_buffers, n) IN
    IF d.r = None
    THEN Ret([m EXCEPT !.wait_for = Some(n)], None)
    ELSE IF Satisfies(p, Unwrap(d.r))
         THEN Ret([m EXCEPT !.input_buffers = d.q], Some(TRUE))
         ELSE Ret(unconsume([m EXCEPT !.input_buffers = d.q], Unwrap(d.r)), Some(FALSE))

lookahead_and_consume(m, n, p) ==
    LET d == bq_pop_front(m.input_buffers, n) IN
    IF d.r = None
    THEN IF m.at_eof THEN Ret(m, Some(FALSE))
         ELSE Ret([m EXCEPT !.wait_for = Some(n)], None)
    ELSE IF Satisfies(p, Unwrap(d.r))
         THEN Ret([m EXCEPT !.input_buffers = d.q], Some(TRUE))
         ELSE Ret(unconsume([m EXCEPT !.input_buffers = d.q], Unwrap(d.r)), Some(FALSE))

peek(m) == IF m.reconsume THEN Some(m.current_char) ELSE bq_peek(m.input_buffers)

discard_char(m) ==
    LET g == get_char(m) IN IF g.ret = None THEN Panic(g) ELSE g

-----------------------------------------------------------------------------
(* CharRefTokenizer (tokenizer::char_ref): the sub-machine for character    *)
(* references.  An operation on the pair (tokenizer m, sub-machine t)       *)
(* yields both and a Status.                                                *)

Stuck == "Stuck"

Progress == "Progress"

Done == "Done"

CR3(m, t, status) == [m |-> m, t |-> t, status |-> status]

CharRef(chars, num_chars) == [chars |-> chars, num_chars |-> num_chars]

CharRefTokenizer_new(addnl_allowed) ==
    [state |-> <<"Begin">>, addnl_allowed |-> addnl_allowed, result |-> None,
     num |-> 0, num_too_big |-> FALSE, seen_digit |-> FALSE,
     hex_marker |-> None, name_buf_opt |-> None, name_match |-> None,
     name_len |-> 0]

\* The named character references the model knows, with the characters each
\* stands for (data::named_entities, cut down).
NamedEntities ==
    [n \in {<<"a","m","p">>, <<"a","m","p",";">>, <<"l","t">>, <<"l","t",";">>,
            <<"n","o","t">>, <<"n","o","t",";">>, <<"n","o","t","i","n",";">>,
            <<"b","n","e",";">>} |->
        CASE n[1] = "a" -> <<"&">>
          [] n[1] = "l" -> <<"<">>
          [] n[1] = "b" -> <<"=", "U+20E5">>
          [] Len(n) > 4 -> <<"U+2209">>
          [] OTHER -> <<"U+00AC">>]

IsEntityPrefix(s) ==
    \E n \in DOMAIN NamedEntities : Len(s) <= Len(n) /\ SubSeq(n, 1, Len(s)) = s

HexLetters == {"a","b","c","d","e","f","A","B","C","D","E","F"}

DigitValue ==
    [c \in Digits \cup HexLetters |->
        CASE c = "0" -> 0 [] c = "1" -> 1 [] c = "2" -> 2 [] c = "3" -> 3
          [] c = "4" -> 4 [] c = "5" -> 5 [] c = "6" -> 6 [] c = "7" -> 7
          [] c = "8" -> 8 [] c = "9" -> 9
          [] c \in {"a","A"} -> 10 [] c \in {"b","B"} -> 11 [] c \in {"c","C"} -> 12
          [] c \in {"d","D"} -> 13 [] c \in {"e","E"} -> 14 [] c \in {"f","F"} -> 15]

\* char::to_digit
to_digit(c, base) ==
    IF c \in Digits \/ (base = 16 /\ c \in HexLetters) THEN Some(DigitValue[c]) ELSE None

\* The character of a code point, as the model writes characters.
CodePointChar(n) ==
    CASE n = 38 -> "&" [] n = 60 -> "<" [] n = 62 -> ">" [] n = 97 -> "a"
      [] n = 10 -> LF [] n = 13 -> CR [] n = 1 -> SOH
      [] OTHER -> "U+" \o ToString(n)

cr_finish_none(m, t) == CR3(m, [t EXCEPT !.result = Some(CharRef(<<NUL, NUL>>, 0))], Done)

cr_finish_one(m, t, c) == CR3(m, [t EXCEPT !.result = Some(CharRef(<<c, NUL>>, 1))], Done)

cr_do_begin(m, t) ==
    LET p == peek(m) IN
    IF p = None THEN CR3(m, t, Stuck)
    ELSE LET c == Unwrap(p) IN
         IF c \in {TAB, LF, FF, SP, "<", "&"} \/ Some(c) = t.addnl_allowed
         THEN cr_finish_none(m, t)
         ELSE IF c = "#"
              THEN CR3(discard_char(m), [t EXCEPT !.state = <<"Octothorpe">>], Progress)
              ELSE CR3(m, [t EXCEPT !.state = <<"Named">>, !.name_buf_opt = Some(<<>>)],
                       Progress)

cr_do_octothorpe(m, t) ==
    LET p == peek(m) IN
    IF p = None THEN CR3(m, t, Stuck)
    ELSE LET c == Unwrap(p) IN
         IF c \in {"x", "X"}
         THEN CR3(discard_char(m),
                  [t EXCEPT !.hex_marker = Some(c), !.state = <<"Numeric", 16>>], Progress)
         ELSE CR3(m, [t EXCEPT !.hex_marker = None, !.state = <<"Numeric", 10>>], Progress)

cr_unconsume_numeric(m, t) ==
    LET buf == <<"#">> \o t.hex_marker
        m1 == emit_error(unconsume(m, buf),
                         <<"Numeric character reference without digits">>)
    IN cr_finish_none(m1, t)

cr_do_numeric(m, t, base) ==
    LET p == peek(m) IN
    IF p = None THEN CR3(m, t, Stuck)
    ELSE LET d == to_digit(Unwrap(p), base) IN
         IF IsSome(d)
         THEN LET n1 == t.num * base
                  big == t.num_too_big \/ n1 > 1114111
              IN \* Once num_too_big is set the result no longer reads num (a u32
                 \* that may wrap): the model keeps it at 0x110000 from then on.
                 CR3(discard_char(m),
                     [t EXCEPT !.num = IF big THEN 1114112 ELSE n1 + Unwrap(d),
                               !.num_too_big = big, !.seen_digit = TRUE],
                     Progress)
         ELSE IF ~t.seen_digit THEN cr_unconsume_numeric(m, t)
              ELSE CR3(m, [t EXCEPT !.state = <<"NumericSemicolon">>], Progress)

cr_finish_numeric(m, t) ==
    LET n == t.num
        bad == \/ n > 1114111 \/ t.num_too_big \/ n = 0 \/ n \in 55296..57343
        err == \/ bad \/ n \in 128..159 \/ n \in 1..8 \/ n = 11 \/ n \in 13..31
               \/ n = 127 \/ n \in 64976..65007 \/ (n % 65536) \in {65534, 65535}
        c == IF bad THEN REPL ELSE CodePointChar(n)
        m1 == IF err THEN emit_error(m, <<"Invalid numeric character reference">>) ELSE m
    IN cr_finish_one(m1, t, c)

cr_do_numeric_semicolon(m, t) ==
    LET p == peek(m) IN
    IF p = None THEN CR3(m, t, Stuck)
    ELSE IF Unwrap(p) = ";"
         THEN cr_finish_numeric(discard_char(m), t)
         ELSE cr_finish_numeric(
                  emit_error(m, <<"Semicolon missing after numeric character reference">>), t)

cr_unconsume_name(m, t) ==
    CR3(unconsume(m, Unwrap(t.name_buf_opt)), [t EXCEPT !.name_buf_opt = None], Progress)

cr_emit_name_error(m) == emit_error(m, <<"Invalid character reference">>)

cr_finish_named(m, t, end_char) ==
    LET buf == Unwrap(t.name_buf_opt) IN
    IF t.name_match = None
    THEN IF IsSome(end_char) /\ is_ascii_alnum(Unwrap(end_char))
         THEN CR3(m, [t EXCEPT !.state = <<"BogusName">>], Progress)
         ELSE LET m1 == IF end_char = Some(";") /\ Len(buf) > 1
                        THEN cr_emit_name_error(m) ELSE m
                  u == cr_unconsume_name(m1, t)
              IN cr_finish_none(u.m, u.t)
    ELSE LET last_matched == buf[t.name_len]
             next_after == IF t.name_len = Len(buf) THEN None ELSE Some(buf[t.name_len + 1])
             in_attr == IsSome(t.addnl_allowed)
             semi == last_matched = ";"
             eq == ~semi /\ in_attr /\ next_after = Some("=")
             alnum == ~semi /\ in_attr /\ IsSome(next_after)
                      /\ is_ascii_alnum(Unwrap(next_after))
             unconsume_all == eq \/ alnum
             m1 == IF eq
                   THEN emit_error(m, <<"Equals sign after character reference in attribute">>)
                   ELSE IF ~semi /\ ~unconsume_all
                        THEN emit_error(m, <<"Character reference does not end with semicolon">>)
                        ELSE m
         IN IF unconsume_all
            THEN LET u == cr_unconsume_name(m1, t) IN cr_finish_none(u.m, u.t)
            ELSE LET cs == Unwrap(t.name_match) IN
                 CR3(unconsume(m1, SubSeq(buf, t.name_len + 1, Len(buf))),
                     [t EXCEPT !.result =
                         Some(CharRef(IF Len(cs) = 2 THEN cs ELSE <<cs[1], NUL>>, Len(cs)))],
                     Done)

cr_do_named(m, t) ==
    LET g == get_char(m) IN
    IF g.ret = None THEN CR3(g, t, Stuck)
    ELSE LET c == Unwrap(g.ret)
             buf == Append(Unwrap(t.name_buf_opt), c)
             t1 == [t EXCEPT !.name_buf_opt = Some(buf)]
         IN IF IsEntityPrefix(buf)
            THEN CR3(g, IF buf \in DOMAIN NamedEntities
                        THEN [t1 EXCEPT !.name_match = Some(NamedEntities[buf]),
                                        !.name_len = Len(buf)]
                        ELSE t1,
                     Progress)
            ELSE cr_finish_named(g, t1, Some(c))

cr_do_bogus_name(m, t) ==
    LET g == get_char(m) IN
    IF g.ret = None THEN CR3(g, t, Stuck)
    ELSE LET c == Unwrap(g.ret)
             t1 == [t EXCEPT !.name_buf_opt = Some(Append(Unwrap(@), c))]
         IN IF is_ascii_alnum(c) THEN CR3(g, t1, Progress)
            ELSE LET u == cr_unconsume_name(IF c = ";" THEN cr_emit_name_error(g) ELSE g, t1)
                 IN cr_finish_none(u.m, u.t)

\* CharRefTokenizer::step
cr_step(m, t) ==
    IF IsSome(t.result) THEN CR3(m, t, Done)
    ELSE CASE t.state[1] = "Begin" -> cr_do_begin(m, t)
           [] t.state[1] = "Octothorpe" -> cr_do_octothorpe(m, t)
           [] t.state[1] = "Numeric" -> cr_do_numeric(m, t, t.state[2])
           [] t.state[1] = "NumericSemicolon" -> cr_do_numeric_semicolon(m, t)
           [] t.state[1] = "Named" -> cr_do_named(m, t)
           [] t.state[1] = "BogusName" -> cr_do_bogus_name(m, t)

\* CharRefTokenizer::end_of_file: every state settles in one round.
cr_end_of_file(m, t) ==
    IF IsSome(t.result) THEN CR3(m, t, Done)
    ELSE CASE t.state[1] = "Begin" -> cr_finish_none(m, t)
           [] t.state[1] = "Numeric" /\ ~t.seen_digit -> cr_unconsume_numeric(m, t)
           [] t.state[1] = "Numeric" /\ t.seen_digit ->
                cr_finish_numeric(emit_error(m, <<"EOF in numeric character reference">>), t)
           [] t.state[1] = "NumericSemicolon" ->
                cr_finish_numeric(emit_error(m, <<"EOF in numeric character reference">>), t)
           [] t.state[1] = "Named" -> cr_finish_named(m, t, None)
           [] t.state[1] = "BogusName" ->
                LET u == cr_unconsume_name(m, t) IN cr_finish_none(u.m, u.t)
           [] t.state[1] = "Octothorpe" ->
                cr_finish_none(
                    emit_error(unconsume(m, <<"#">>),
                               <<"EOF after '#' in character reference">>), t)

cr_get_result(t) == Unwrap(t.result)

consume_char_ref(m, addnl_allowed) ==
    [m EXCEPT !.char_ref_tokenizer = Some(CharRefTokenizer_new(addnl_allowed))]

-----------------------------------------------------------------------------
(* The go! commands.  step() returns true (ret = TRUE) to be invoked again; *)
(* an arm that falls through to the next round of its state's loop is the   *)
(* same as returning true, because a new step() in the same state, with no  *)
(* character reference begun and no lookahead pending, runs that loop.      *)

Again(m) == Ret(m, TRUE)

To(m, s) == [m EXCEPT !.state = s, !.ret = TRUE]

ReconsumeTo(m, s) == [m EXCEPT !.reconsume = TRUE, !.state = s, !.ret = TRUE]

EmitTagTo(m, s) == Ret(emit_current_tag([m EXCEPT !.state = s]), TRUE)

\* go!(self: eof) that neither emits nor leaves the loop
Eof_continue(m) == Ret(m, TRUE)

\* go!(self: eof): emit the EOF token and leave the loop
Eof(m) == Ret(emit_eof(m), FALSE)

push_tag(m, c) == [m EXCEPT !.current_tag_name = Append(@, c)]

push_temp(m, c) == [m EXCEPT !.temp_buf = Append(@, c)]

push_name(m, c) == [m EXCEPT !.current_attr_name = Append(@, c)]

push_value(m, c) == [m EXCEPT !.current_attr_value = Append(@, c)]

append_value(m, b) == [m EXCEPT !.current_attr_value = append_strings(@, b)]

push_comment(m, c) == [m EXCEPT !.current_comment = Append(@, c)]

\* A variant for comparison: the string is not appended.
append_comment_dropped(m, s) == m

append_comment(m, s) == [m EXCEPT !.current_comment = @ \o s]

clear_comment(m) == [m EXCEPT !.current_comment = <<>>]

create_doctype(m) == [m EXCEPT !.current_doctype = NewDoctype]

\* A variant for comparison: the name is replaced by the character.
push_doctype_name_replacing(m, c) == [m EXCEPT !.current_doctype.name = Some(<<c>>)]

push_doctype_name(m, c) == [m EXCEPT !.current_doctype.name = option_push_char(@, c)]

push_doctype_id(m, kind, c) ==
    [m EXCEPT !.current_doctype[doctype_id(kind)] = option_push_char(@, c)]

force_quirks(m) == [m EXCEPT !.current_doctype.force_quirks = TRUE]

-----------------------------------------------------------------------------
(* Tokenizer::step, state by state *)

\* Data, RCDATA, RAWTEXT, script data (escaped, double escaped), PLAINTEXT
\* g is the tokenizer as pop_except_from! left it, its result in g.ret.
step_text_popped(g) ==
    LET kind == RawKindOf(g.state)
    IN IF g.ret = None THEN Ret(g, FALSE)
       ELSE LET r == Unwrap(g.ret) IN
            IF r[1] = "NotFromSet" THEN Again(emit_chars(g, r[2]))
            ELSE LET c == r[2] IN
                 CASE c = NUL ->
                        Again(emit_char(bad_char_error(g), IF g.state = Data THEN NUL ELSE REPL))
                   [] c = "&" /\ g.state \in {Data, RawData(Rcdata)} ->
                        Again(consume_char_ref(g, None))
                   [] c = "<" /\ g.state = Data -> To(g, St("TagOpen"))
                   [] c = "<" /\ g.state = RawData(ScriptDataEscaped(DoubleEscaped)) ->
                        To(emit_char(g, "<"), RawLessThanSign(kind))
                   [] c = "<" /\ g.state # Plaintext -> To(g, RawLessThanSign(kind))
                   [] c = "-" /\ Len(g.state) = 3 ->
                        To(emit_char(g, "-"), StK("ScriptDataEscapedDash", g.state[3]))
                   [] OTHER -> Again(emit_char(g, c))

step_text(m) ==
    step_text_popped(pop_except_from(m,
        CASE m.state = Data \/ m.state = RawData(Rcdata) -> {CR, NUL, "&", "<"}
          [] m.state = Plaintext -> {CR, NUL}
          [] m.state \in {RawData(Rawtext), RawData(ScriptData)} -> {CR, NUL, "<"}
          [] OTHER -> {CR, NUL, "-", "<"}))

\* TagOpen, EndTagOpen, TagName
step_tag(g, c) ==
    LET cl == lower_ascii_letter(c) IN
    CASE g.state = St("TagOpen") ->
           CASE c = "!" -> To(g, St("MarkupDeclarationOpen"))
             [] c = "/" -> To(g, St("EndTagOpen"))
             [] c = "?" ->
                  To(push_comment(clear_comment(bad_char_error(g)), "?"), St("BogusComment"))
             [] OTHER ->
                  IF IsSome(cl) THEN To(create_tag(g, StartTag, Unwrap(cl)), St("TagName"))
                  ELSE ReconsumeTo(emit_char(bad_char_error(g), "<"), Data)
      [] g.state = St("EndTagOpen") ->
           CASE c = ">" -> To(bad_char_error(g), Data)
             [] c = NUL ->
                  To(push_comment(clear_comment(bad_char_error(g)), REPL), St("BogusComment"))
             [] OTHER ->
                  IF IsSome(cl) THEN To(create_tag(g, EndTag, Unwrap(cl)), St("TagName"))
                  ELSE To(push_comment(clear_comment(bad_char_error(g)), c), St("BogusComment"))
      [] g.state = St("TagName") ->
           CASE c \in Whitespace -> To(g, St("BeforeAttributeName"))
             [] c = "/" -> To(g, St("SelfClosingStartTag"))
             [] c = ">" -> EmitTagTo(g, Data)
             [] c = NUL -> Again(push_tag(bad_char_error(g), REPL))
             [] OTHER -> Again(push_tag(g, lower_ascii(c)))

\* RawLessThanSign(kind), RawEndTagOpen(kind), RawEndTagName(kind)
step_raw_tag(g, c) ==
    LET kind == RawKindOf(g.state)
        cl == lower_ascii_letter(c)
    IN
    CASE g.state = RawLessThanSign(ScriptDataEscaped(Escaped)) ->
           IF c = "/" THEN To(clear_temp_buf(g), RawEndTagOpen(kind))
           ELSE IF IsSome(cl)
                THEN To(emit_char(emit_char(push_temp(clear_temp_buf(g), Unwrap(cl)), "<"), c),
                        StK("ScriptDataEscapeStart", DoubleEscaped))
                ELSE ReconsumeTo(emit_char(g, "<"), RawData(kind))
      [] g.state = RawLessThanSign(ScriptDataEscaped(DoubleEscaped)) ->
           IF c = "/" THEN To(emit_char(clear_temp_buf(g), "/"), St("ScriptDataDoubleEscapeEnd"))
           ELSE ReconsumeTo(g, RawData(kind))
      [] g.state[1] = "RawLessThanSign" ->
           CASE c = "/" -> To(clear_temp_buf(g), RawEndTagOpen(kind))
             [] c = "!" /\ kind = ScriptData ->
                  To(emit_char(emit_char(g, "<"), "!"), StK("ScriptDataEscapeStart", Escaped))
             [] OTHER -> ReconsumeTo(emit_char(g, "<"), RawData(kind))
      [] g.state[1] = "RawEndTagOpen" ->
           IF IsSome(cl)
           THEN To(push_temp(create_tag(g, EndTag, Unwrap(cl)), c), RawEndTagName(kind))
           ELSE ReconsumeTo(emit_char(emit_char(g, "<"), "/"), RawData(kind))
      [] g.state[1] = "RawEndTagName" ->
           IF have_appropriate_end_tag(g) /\ c \in Whitespace
           THEN To(g, St("BeforeAttributeName"))
           ELSE IF have_appropriate_end_tag(g) /\ c = "/"
           THEN To(g, St("SelfClosingStartTag"))
           ELSE IF have_appropriate_end_tag(g) /\ c = ">"
           THEN EmitTagTo(g, Data)
           ELSE IF IsSome(cl)
           THEN Again(push_temp(push_tag(g, Unwrap(cl)), c))
           ELSE ReconsumeTo(
                    emit_temp_buf(emit_char(emit_char(discard_tag(g), "<"), "/")),
                    RawData(kind))

\* ScriptDataEscapeStart(kind), ScriptDataEscapeStartDash,
\* ScriptDataEscapedDash(kind), ScriptDataEscapedDashDash(kind),
\* ScriptDataDoubleEscapeEnd
step_script(g, c) ==
    LET cl == lower_ascii_letter(c)
        is_script == g.temp_buf = <<"s","c","r","i","p","t">>
    IN
    CASE g.state = StK("ScriptDataEscapeStart", DoubleEscaped) ->
           IF c \in Whitespace \cup {"/", ">"}
           THEN To(emit_char(g, c),
                   RawData(ScriptDataEscaped(IF is_script THEN DoubleEscaped ELSE Escaped)))
           ELSE IF IsSome(cl) THEN Again(emit_char(push_temp(g, Unwrap(cl)), c))
                ELSE ReconsumeTo(g, RawData(ScriptDataEscaped(Escaped)))
      [] g.state = StK("ScriptDataEscapeStart", Escaped) ->
           IF c = "-" THEN To(emit_char(g, "-"), St("ScriptDataEscapeStartDash"))
           ELSE ReconsumeTo(g, RawData(ScriptData))
      [] g.state = St("ScriptDataEscapeStartDash") ->
           IF c = "-" THEN To(emit_char(g, "-"), StK("ScriptDataEscapedDashDash", Escaped))
           ELSE ReconsumeTo(g, RawData(ScriptData))
      [] g.state[1] = "ScriptDataEscapedDash" ->
           LET kind == g.state[2] IN
           CASE c = "-" -> To(emit_char(g, "-"), StK("ScriptDataEscapedDashDash", kind))
             [] c = "<" -> To(IF kind = DoubleEscaped THEN emit_char(g, "<") ELSE g,
                              RawLessThanSign(ScriptDataEscaped(kind)))
             [] c = NUL -> To(emit_char(bad_char_error(g), REPL),
                              RawData(ScriptDataEscaped(kind)))
             [] OTHER -> To(emit_char(g, c), RawData(ScriptDataEscaped(kind)))
      [] g.state[1] = "ScriptDataEscapedDashDash" ->
           LET kind == g.state[2] IN
           CASE c = "-" -> Again(emit_char(g, "-"))
             [] c = "<" -> To(IF kind = DoubleEscaped THEN emit_char(g, "<") ELSE g,
                              RawLessThanSign(ScriptDataEscaped(kind)))
             [] c = ">" -> To(emit_char(g, ">"), RawData(ScriptData))
             [] c = NUL -> To(emit_char(bad_char_error(g), REPL),
                              RawData(ScriptDataEscaped(kind)))
             [] OTHER -> To(emit_char(g, c), RawData(ScriptDataEscaped(kind)))
      [] g.state = St("ScriptDataDoubleEscapeEnd") ->
           IF c \in Whitespace \cup {"/", ">"}
           THEN To(emit_char(g, c),
                   RawData(ScriptDataEscaped(IF is_script THEN Escaped ELSE DoubleEscaped)))
           ELSE IF IsSome(cl) THEN Again(emit_char(push_temp(g, Unwrap(cl)), c))
                ELSE ReconsumeTo(g, RawData(ScriptDataEscaped(DoubleEscaped)))

AttributeValue(q) == StK("AttributeValue", q)

\* BeforeAttributeName, AttributeName, AfterAttributeName,
\* BeforeAttributeValue, AfterAttributeValueQuoted, SelfClosingStartTag
step_attr(g, c) ==
    LET cl == lower_ascii_letter(c)
        err(bad) == IF c \in bad THEN bad_char_error(g) ELSE g
    IN
    CASE g.state = St("BeforeAttributeName") ->
           CASE c \in Whitespace -> Again(g)
             [] c = "/" -> To(g, St("SelfClosingStartTag"))
             [] c = ">" -> EmitTagTo(g, Data)
             [] c = NUL -> To(create_attribute(bad_char_error(g), REPL), St("AttributeName"))
             [] OTHER ->
                  IF IsSome(cl) THEN To(create_attribute(g, Unwrap(cl)), St("AttributeName"))
                  ELSE To(create_attribute(err({"\"", "'", "<", "="}), c), St("AttributeName"))
      [] g.state = St("AttributeName") ->
           CASE c \in Whitespace -> To(g, St("AfterAttributeName"))
             [] c = "/" -> To(g, St("SelfClosingStartTag"))
             [] c = "=" -> To(g, St("BeforeAttributeValue"))
             [] c = ">" -> EmitTagTo(g, Data)
             [] c = NUL -> Again(push_name(bad_char_error(g), REPL))
             [] OTHER ->
                  IF IsSome(cl) THEN Again(push_name(g, Unwrap(cl)))
                  ELSE Again(push_name(err({"\"", "'", "<"}), c))
      [] g.state = St("AfterAttributeName") ->
           CASE c \in Whitespace -> Again(g)
             [] c = "/" -> To(g, St("SelfClosingStartTag"))
             [] c = "=" -> To(g, St("BeforeAttributeValue"))
             [] c = ">" -> EmitTagTo(g, Data)
             [] c = NUL -> To(create_attribute(bad_char_error(g), REPL), St("AttributeName"))
             [] OTHER ->
                  IF IsSome(cl) THEN To(create_attribute(g, Unwrap(cl)), St("AttributeName"))
                  ELSE To(create_attribute(err({"\"", "'", "<"}), c), St("AttributeName"))
      [] g.state = St("BeforeAttributeValue") ->
           CASE c \in Whitespace -> Again(g)
             [] c = "\"" -> To(g, AttributeValue(DoubleQuoted))
             [] c = "&" -> ReconsumeTo(g, AttributeValue(Unquoted))
             [] c = "'" -> To(g, AttributeValue(SingleQuoted))
             [] c = NUL -> To(push_value(bad_char_error(g), REPL), AttributeValue(Unquoted))
             [] c = ">" -> EmitTagTo(bad_char_error(g), Data)
             [] OTHER -> To(push_value(err({"<", "=", GRAVE}), c), AttributeValue(Unquoted))
      [] g.state = St("AfterAttributeValueQuoted") ->
           CASE c \in Whitespace -> To(g, St("BeforeAttributeName"))
             [] c = "/" -> To(g, St("SelfClosingStartTag"))
             [] c = ">" -> EmitTagTo(g, Data)
             [] OTHER -> ReconsumeTo(bad_char_error(g), St("BeforeAttributeName"))
      [] g.state = St("SelfClosingStartTag") ->
           IF c = ">" THEN EmitTagTo([g EXCEPT !.current_tag_self_closing = TRUE], Data)
           ELSE ReconsumeTo(bad_char_error(g), St("BeforeAttributeName"))

\* AttributeValue(DoubleQuoted), AttributeValue(SingleQuoted), AttributeValue(Unquoted)
\* g is the tokenizer as pop_except_from! left it, its result in g.ret.
step_attr_value_popped(g) ==
    LET q == g.state[2]
        quote == CASE q = DoubleQuoted -> "\"" [] q = SingleQuoted -> "'" [] OTHER -> ">"
    IN IF g.ret = None THEN Ret(g, FALSE)
       ELSE LET r == Unwrap(g.ret) IN
            IF r[1] = "NotFromSet" THEN Again(append_value(g, r[2]))
            ELSE LET c == r[2] IN
                 CASE q # Unquoted /\ c = quote -> To(g, St("AfterAttributeValueQuoted"))
                   [] q = Unquoted /\ c \in Whitespace -> To(g, St("BeforeAttributeName"))
                   [] q = Unquoted /\ c = ">" -> EmitTagTo(g, Data)
                   [] c = "&" -> Again(consume_char_ref(g, Some(quote)))
                   [] c = NUL -> Again(push_value(bad_char_error(g), REPL))
                   [] OTHER ->
                        Again(push_value(
                            IF q = Unquoted /\ c \in {"\"", "'", "<", "=", GRAVE}
                            THEN bad_char_error(g) ELSE g, c))

step_attr_value(m) ==
    step_attr_value_popped(pop_except_from(m,
        CASE m.state[2] = DoubleQuoted -> {CR, "\"", "&", NUL}
          [] m.state[2] = SingleQuoted -> {CR, "'", "&", NUL}
          [] OTHER -> {CR, TAB, LF, FF, SP, "&", ">", NUL}))

\* CommentStart, CommentStartDash, Comment, CommentEndDash, CommentEnd,
\* CommentEndBang, BogusComment
step_comment(g, c) ==
    CASE g.state = St("CommentStart") ->
           CASE c = "-" -> To(g, St("CommentStartDash"))
             [] c = NUL -> To(push_comment(bad_char_error(g), REPL), St("Comment"))
             [] c = ">" -> To(emit_current_comment(bad_char_error(g)), Data)
             [] OTHER -> To(push_comment(g, c), St("Comment"))
      [] g.state = St("CommentStartDash") ->
           CASE c = "-" -> To(g, St("CommentEnd"))
             [] c = NUL -> To(append_comment(bad_char_error(g), <<"-", REPL>>), St("Comment"))
             [] c = ">" -> To(emit_current_comment(bad_char_error(g)), Data)
             [] OTHER -> To(push_comment(push_comment(g, "-"), c), St("Comment"))
      [] g.state = St("Comment") ->
           CASE c = "-" -> To(g, St("CommentEndDash"))
             [] c = NUL -> Again(push_comment(bad_char_error(g), REPL))
             [] OTHER -> Again(push_comment(g, c))
      [] g.state = St("CommentEndDash") ->
           CASE c = "-" -> To(g, St("CommentEnd"))
             [] c = NUL -> To(append_comment(bad_char_error(g), <<"-", REPL>>), St("Comment"))
             [] OTHER -> To(push_comment(push_comment(g, "-"), c), St("Comment"))
      [] g.state = St("CommentEnd") ->
           CASE c = ">" -> To(emit_current_comment(g), Data)
             [] c = NUL ->
                  To(append_comment(bad_char_error(g), <<"-", "-", REPL>>), St("Comment"))
             [] c = "!" -> To(bad_char_error(g), St("CommentEndBang"))
             [] c = "-" -> Again(push_comment(bad_char_error(g), "-"))
             [] OTHER ->
                  To(push_comment(append_comment(bad_char_error(g), <<"-", "-">>), c),
                     St("Comment"))
      [] g.state = St("CommentEndBang") ->
           CASE c = "-" -> To(append_comment(g, <<"-", "-", "!">>), St("CommentEndDash"))
             [] c = ">" -> To(emit_current_comment(g), Data)
             [] c = NUL ->
                  To(append_comment(bad_char_error(g), <<"-", "-", "!", REPL>>), St("Comment"))
             [] OTHER ->
                  To(push_comment(append_comment(g, <<"-", "-", "!">>), c), St("Comment"))
      [] g.state = St("BogusComment") ->
           CASE c = ">" -> To(emit_current_comment(g), Data)
             [] c = NUL -> Again(push_comment(g, REPL))
             [] OTHER -> Again(push_comment(g, c))

\* Doctype, BeforeDoctypeName, DoctypeName, AfterDoctypeKeyword(kind),
\* BeforeDoctypeIdentifier(kind), DoctypeIdentifier{Double,Single}Quoted(kind),
\* AfterDoctypeIdentifier(kind), BetweenDoctypePublicAndSystemIdentifiers,
\* BogusDoctype
step_doctype(g, c) ==
    LET kind == IF Len(g.state) = 2 THEN g.state[2] ELSE Public
        quirks_to_data == To(emit_current_doctype(force_quirks(bad_char_error(g))), Data)
        quirks_to_bogus == To(force_quirks(bad_char_error(g)), St("BogusDoctype"))
        dq(k) == StK("DoctypeIdentifierDoubleQuoted", k)
        sq(k) == StK("DoctypeIdentifierSingleQuoted", k)
    IN
    CASE g.state = St("Doctype") ->
           IF c \in Whitespace THEN To(g, St("BeforeDoctypeName"))
           ELSE ReconsumeTo(bad_char_error(g), St("BeforeDoctypeName"))
      [] g.state = St("BeforeDoctypeName") ->
           CASE c \in Whitespace -> Again(g)
             [] c = NUL ->
                  To(push_doctype_name(create_doctype(bad_char_error(g)), REPL),
                     St("DoctypeName"))
             [] c = ">" ->
                  To(emit_current_doctype(force_quirks(create_doctype(bad_char_error(g)))),
                     Data)
             [] OTHER ->
                  To(push_doctype_name(create_doctype(g), lower_ascii(c)), St("DoctypeName"))
      [] g.state = St("DoctypeName") ->
           CASE c \in Whitespace -> To(g, St("AfterDoctypeName"))
             [] c = ">" -> To(emit_current_doctype(g), Data)
             [] c = NUL -> Again(push_doctype_name(bad_char_error(g), REPL))
             [] OTHER -> Again(push_doctype_name(g, lower_ascii(c)))
      [] g.state[1] = "AfterDoctypeKeyword" ->
           CASE c \in Whitespace -> To(g, StK("BeforeDoctypeIdentifier", kind))
             [] c = "\"" -> To(clear_doctype_id(bad_char_error(g), kind), dq(kind))
             [] c = "'" -> To(clear_doctype_id(bad_char_error(g), kind), sq(kind))
             [] c = ">" -> quirks_to_data
             [] OTHER -> quirks_to_bogus
      [] g.state[1] = "BeforeDoctypeIdentifier" ->
           CASE c \in Whitespace -> Again(g)
             [] c = "\"" -> To(clear_doctype_id(g, kind), dq(kind))
             [] c = "'" -> To(clear_doctype_id(g, kind), sq(kind))
             [] c = ">" -> quirks_to_data
             [] OTHER -> quirks_to_bogus
      [] g.state[1] \in {"DoctypeIdentifierDoubleQuoted", "DoctypeIdentifierSingleQuoted"} ->
           CASE c = (IF g.state[1] = "DoctypeIdentifierDoubleQuoted" THEN "\"" ELSE "'") ->
                  To(g, StK("AfterDoctypeIdentifier", kind))
             [] c = NUL -> Again(push_doctype_id(bad_char_error(g), kind, REPL))
             [] c = ">" -> quirks_to_data
             [] OTHER -> Again(push_doctype_id(g, kind, c))
      [] g.state = StK("AfterDoctypeIdentifier", Public) ->
           CASE c \in Whitespace -> To(g, St("BetweenDoctypePublicAndSystemIdentifiers"))
             [] c = ">" -> To(emit_current_doctype(g), Data)
             [] c = "\"" -> To(clear_doctype_id(bad_char_error(g), System), dq(System))
             [] c = "'" -> To(clear_doctype_id(bad_char_error(g), System), sq(System))
             [] OTHER -> quirks_to_bogus
      [] g.state = StK("AfterDoctypeIdentifier", System) ->
           CASE c \in Whitespace -> Again(g)
             [] c = ">" -> To(emit_current_doctype(g), Data)
             [] OTHER -> To(bad_char_error(g), St("BogusDoctype"))
      [] g.state = St("BetweenDoctypePublicAndSystemIdentifiers") ->
           CASE c \in Whitespace -> Again(g)
             [] c = ">" -> To(emit_current_doctype(g), Data)
             [] c = "\"" -> To(clear_doctype_id(g, System), dq(System))
             [] c = "'" -> To(clear_doctype_id(g, System), sq(System))
             [] OTHER -> quirks_to_bogus
      [] g.state = St("BogusDoctype") ->
           IF c = ">" THEN To(emit_current_doctype(g), Data) ELSE Again(g)

\* lookahead_and_consume!: None leaves the step at once, returning true.
\* AfterDoctypeName
step_after_doctype_name(m) ==
    LET l1 == lookahead_and_consume(m, 6, EqIgnoreAsciiCase(<<"p","u","b","l","i","c">>))
        l2 == lookahead_and_consume(l1, 6, EqIgnoreAsciiCase(<<"s","y","s","t","e","m">>))
        g == get_char(l2)
    IN IF l1.ret = None THEN Ret(l1, TRUE)
       ELSE IF Unwrap(l1.ret) THEN To(l1, StK("AfterDoctypeKeyword", Public))
       ELSE IF l2.ret = None THEN Ret(l2, TRUE)
       ELSE IF Unwrap(l2.ret) THEN To(l2, StK("AfterDoctypeKeyword", System))
       ELSE IF g.ret = None THEN Ret(g, FALSE)
       ELSE CASE Unwrap(g.ret) \in Whitespace -> Again(g)
              [] Unwrap(g.ret) = ">" -> To(emit_current_doctype(g), Data)
              [] OTHER -> To(force_quirks(bad_char_error(g)), St("BogusDoctype"))

\* MarkupDeclarationOpen
step_markup_declaration_open(m) ==
    LET l1 == lookahead_and_consume(m, 2, Eq(<<"-", "-">>))
        l2 == lookahead_and_consume(l1, 7, EqIgnoreAsciiCase(<<"d","o","c","t","y","p","e">>))
    IN IF l1.ret = None THEN Ret(l1, TRUE)
       ELSE IF Unwrap(l1.ret) THEN To(clear_comment(l1), St("CommentStart"))
       ELSE IF l2.ret = None THEN Ret(l2, TRUE)
       ELSE IF Unwrap(l2.ret) THEN To(l2, St("Doctype"))
       ELSE To(bad_char_error(l2), St("BogusComment"))

TextStates == {Data, Plaintext} \cup {RawData(k) : k \in RawKinds}

TagStates == {St("TagOpen"), St("EndTagOpen"), St("TagName")}

AttrStates ==
    {St("BeforeAttributeName"), St("AttributeName"), St("AfterAttributeName"),
     St("BeforeAttributeValue"), St("AfterAttributeValueQuoted"), St("SelfClosingStartTag")}

CommentStates ==
    {St("CommentStart"), St("CommentStartDash"), St("Comment"), St("CommentEndDash"),
     St("CommentEnd"), St("CommentEndBang"), St("BogusComment")}

\* Every value of states::State
States ==
    TextStates \cup TagStates \cup AttrStates \cup CommentStates
    \cup {RawLessThanSign(k) : k \in RawKinds}
    \cup {RawEndTagOpen(k) : k \in RawKinds}
    \cup {RawEndTagName(k) : k \in RawKinds}
    \cup {StK(n, e) : n \in {"ScriptDataEscapeStart", "ScriptDataEscapedDash",
                             "ScriptDataEscapedDashDash"},
                      e \in {Escaped, DoubleEscaped}}
    \cup {St("ScriptDataEscapeStartDash"), St("ScriptDataDoubleEscapeEnd")}
    \cup {AttributeValue(q) : q \in {Unquoted, SingleQuoted, DoubleQuoted}}
    \cup {St("MarkupDeclarationOpen"), St("CdataSection"), St("Doctype"),
          St("BeforeDoctypeName"), St("DoctypeName"), St("AfterDoctypeName"),
          St("BetweenDoctypePublicAndSystemIdentifiers"), St("BogusDoctype")}
    \cup {StK(n, k) : n \in {"AfterDoctypeKeyword", "BeforeDoctypeIdentifier",
                             "DoctypeIdentifierDoubleQuoted",
                             "DoctypeIdentifierSingleQuoted", "AfterDoctypeIdentifier"},
                      k \in {Public, System}}

\* process_char_ref that accepts a character reference in Data and in an
\* attribute value only
process_char_ref_no_rcdata(m, char_ref) ==
    LET chars == IF char_ref.num_chars = 0 THEN <<"&">>
                 ELSE SubSeq(char_ref.chars, 1, char_ref.num_chars)
        one(mm, c) ==
            IF mm.panicked THEN mm
            ELSE IF mm.state = Data THEN emit_char(mm, c)
            ELSE IF mm.state[1] = "AttributeValue" THEN push_value(mm, c)
            ELSE Panic(mm)
    IN IF Len(chars) = 1 THEN one(m, chars[1]) ELSE one(one(m, chars[1]), chars[2])

\* process_char_ref that puts nothing in the place of a reference that
\* stands for no character
process_char_ref_no_ampersand(m, char_ref) ==
    LET chars == SubSeq(char_ref.chars, 1, char_ref.num_chars)
        one(mm, c) ==
            IF mm.panicked THEN mm
            ELSE IF mm.state \in {Data, RawData(Rcdata)} THEN emit_char(mm, c)
            ELSE IF mm.state[1] = "AttributeValue" THEN push_value(mm, c)
            ELSE Panic(mm)
    IN IF Len(chars) = 0 THEN m
       ELSE IF Len(chars) = 1 THEN one(m, chars[1]) ELSE one(one(m, chars[1]), chars[2])

process_char_ref(m, char_ref) ==
    LET chars == IF char_ref.num_chars = 0 THEN <<"&">>
                 ELSE SubSeq(char_ref.chars, 1, char_ref.num_chars)
        one(mm, c) ==
            IF mm.panicked THEN mm
            ELSE IF mm.state \in {Data, RawData(Rcdata)} THEN emit_char(mm, c)
            ELSE IF mm.state[1] = "AttributeValue" THEN push_value(mm, c)
            ELSE Panic(mm)
    IN IF Len(chars) = 1 THEN one(m, chars[1]) ELSE one(one(m, chars[1]), chars[2])

\* `match outcome` on what tok.step(self) yielded: the tokenizer r.m, the
\* sub-tokenizer r.t, the Status r.status
match_outcome(r) ==
    IF r.m.panicked THEN Panic(r.m)
    ELSE IF r.status = Done THEN Ret(process_char_ref(r.m, cr_get_result(r.t)), TRUE)
    ELSE Ret([r.m EXCEPT !.char_ref_tokenizer = Some(r.t)], r.status = Progress)

step_char_ref_tokenizer(m) ==
    match_outcome(cr_step([m EXCEPT !.char_ref_tokenizer = None],
                          Unwrap(m.char_ref_tokenizer)))

\* The states whose arms open with get_char!; g is the tokenizer as
\* get_char! left it, the character in g.ret.
step_char(g) ==
    IF g.ret = None THEN Ret(g, FALSE)
    ELSE CASE g.state \in TagStates -> step_tag(g, Unwrap(g.ret))
           [] g.state \in AttrStates -> step_attr(g, Unwrap(g.ret))
           [] g.state \in CommentStates -> step_comment(g, Unwrap(g.ret))
           [] g.state[1] \in {"RawLessThanSign", "RawEndTagOpen", "RawEndTagName"} ->
                step_raw_tag(g, Unwrap(g.ret))
           [] g.state[1] \in {"ScriptDataEscapeStart", "ScriptDataEscapeStartDash",
                              "ScriptDataEscapedDash", "ScriptDataEscapedDashDash",
                              "ScriptDataDoubleEscapeEnd"} ->
                step_script(g, Unwrap(g.ret))
           [] OTHER -> step_doctype(g, Unwrap(g.ret))

step(m) ==
    IF IsSome(m.char_ref_tokenizer) THEN step_char_ref_tokenizer(m)
    ELSE IF IsSome(m.wait_for) /\ ~bq_has(m.input_buffers, Unwrap(m.wait_for))
    THEN Ret(m, FALSE)
    ELSE LET m1 == [m EXCEPT !.wait_for = None]
         IN CASE m1.state \in TextStates -> step_text(m1)
              [] m1.state[1] = "AttributeValue" -> step_attr_value(m1)
              [] m1.state = St("AfterDoctypeName") -> step_after_doctype_name(m1)
              [] m1.state = St("MarkupDeclarationOpen") -> step_markup_declaration_open(m1)
              [] m1.state = St("CdataSection") -> Panic(m1)
              [] OTHER -> step_char(get_char(m1))

\* Run the state machine for as long as we can.
RECURSIVE run(_)

\* `while self.step() {}`: the loop goes on while step() returned true
while_step(m1) == IF m1.ret THEN run(m1) ELSE m1

run(m) == IF m.panicked THEN m ELSE while_step(step(m))

\* Tokenizer::feed from the BOM check up to the call of run(); pos counts
\* characters where the code counts the bytes of the BOM in UTF-8.
feed_begin(m, input) ==
    LET bom == m.discard_bom /\ input[1] = BOM
        pos == IF bom THEN 1 ELSE 0
        m1 == IF bom THEN [m EXCEPT !.discard_bom = FALSE] ELSE m
    IN [m1 EXCEPT !.input_buffers = bq_push_back(@, input, pos)]

\* feed that gives up on the byte order mark at its first call, whatever
\* the input
feed_bom_first_call(m, input) ==
    IF Len(input) = 0 THEN [m EXCEPT !.discard_bom = FALSE]
    ELSE [run(feed_begin(m, input)) EXCEPT !.discard_bom = FALSE]

\* feed that queues its input and does not run the state machine
feed_no_run(m, input) ==
    IF Len(input) = 0 THEN m
    ELSE feed_begin(m, input)

feed(m, input) ==
    IF Len(input) = 0 THEN m
    ELSE run(feed_begin(m, input))

eof_step(m) ==
    LET s == m.state
        kind == RawKindOf(s)
        EofStates == {Data, RawData(Rcdata), RawData(Rawtext), RawData(ScriptData), Plaintext}
        ErrToData ==
            {St("TagName"), RawData(ScriptDataEscaped(Escaped)),
             RawData(ScriptDataEscaped(DoubleEscaped)), St("SelfClosingStartTag")}
            \cup (AttrStates \ {St("SelfClosingStartTag")})
        DoctypeQuirks ==
            {"DoctypeName", "AfterDoctypeName", "AfterDoctypeKeyword",
             "BeforeDoctypeIdentifier", "DoctypeIdentifierDoubleQuoted",
             "DoctypeIdentifierSingleQuoted", "AfterDoctypeIdentifier",
             "BetweenDoctypePublicAndSystemIdentifiers"}
    IN
    CASE s \in EofStates -> Eof(m)
      [] s \in ErrToData \/ s[1] \in {"AttributeValue", "ScriptDataEscapedDash",
                                      "ScriptDataEscapedDashDash"} ->
           To(bad_eof_error(m), Data)
      [] s = St("TagOpen") -> To(emit_char(bad_eof_error(m), "<"), Data)
      [] s = St("EndTagOpen") -> To(emit_char(emit_char(bad_eof_error(m), "<"), "/"), Data)
      [] s = RawLessThanSign(ScriptDataEscaped(DoubleEscaped)) ->
           To(m, RawData(ScriptDataEscaped(DoubleEscaped)))
      [] s[1] = "RawLessThanSign" -> To(emit_char(m, "<"), RawData(kind))
      [] s[1] = "RawEndTagOpen" -> To(emit_char(emit_char(m, "<"), "/"), RawData(kind))
      [] s[1] = "RawEndTagName" ->
           To(emit_temp_buf(emit_char(emit_char(m, "<"), "/")), RawData(kind))
      [] s[1] = "ScriptDataEscapeStart" -> To(m, RawData(ScriptDataEscaped(s[2])))
      [] s = St("ScriptDataEscapeStartDash") -> To(m, RawData(ScriptData))
      [] s = St("ScriptDataDoubleEscapeEnd") ->
           To(m, RawData(ScriptDataEscaped(DoubleEscaped)))
      [] s \in CommentStates \ {St("BogusComment")} ->
           To(emit_current_comment(bad_eof_error(m)), Data)
      [] s \in {St("Doctype"), St("BeforeDoctypeName")} ->
           To(emit_current_doctype(force_quirks(create_doctype(bad_eof_error(m)))), Data)
      [] s[1] \in DoctypeQuirks ->
           To(emit_current_doctype(force_quirks(bad_eof_error(m))), Data)
      [] s = St("BogusDoctype") -> To(emit_current_doctype(m), Data)
      [] s = St("BogusComment") -> To(emit_current_comment(m), Data)
      [] s = St("MarkupDeclarationOpen") -> To(bad_char_error(m), St("BogusComment"))
      [] s = St("CdataSection") -> Panic(m)

RECURSIVE eof_loop(_)

\* `while self.eof_step() {}`: the loop goes on while eof_step() returned true
while_eof_step(m1) == IF m1.ret THEN eof_loop(m1) ELSE m1

eof_loop(m) == IF m.panicked THEN m ELSE while_eof_step(eof_step(m))

\* Tokenizer::end up to the call of run()
end_begin(m) ==
    LET m1 == IF IsSome(m.char_ref_tokenizer)
              THEN LET r == cr_end_of_file([m EXCEPT !.char_ref_tokenizer = None],
                                           Unwrap(m.char_ref_tokenizer))
                   IN process_char_ref(r.m, cr_get_result(r.t))
              ELSE m
    IN IF m1.panicked THEN m1 ELSE [m1 EXCEPT !.wait_for = None, !.at_eof = TRUE]

end(m) == eof_loop(run(end_begin(m)))

-----------------------------------------------------------------------------
(* The driver: a tokenizer is created, fed chunk after chunk, and ended.    *)
(*   tok      the Tokenizer, with the sink it writes to                     *)
(*   fed      the chunks given to feed so far, in order                     *)
(*   phase    "open" until end() is called, then "ended"                    *)
(*   last     the last call: its name, its input, how many characters it    *)
(*            had before it when it started (those in the buffer queue,     *)
(*            those of its input, those the character-reference tokenizer   *)
(*            put back at the end of input) and how many it left in the     *)
(*            buffer queue                                                  *)
(*   dropped  the stream positions of the U+FEFF that feed discarded        *)

MaxFeeds == 3

\* The chunks a feed call may be given.
Chunks ==
    {<<>>, <<"<">>, <<">">>, <<"/">>, <<"!">>, <<"-">>, <<"a">>, <<"&">>, <<";">>,
     <<CR>>, <<LF>>, <<NUL>>, <<BOM>>, <<SP>>, <<"=">>,
     <<"<", "a">>, <<"<", "a", ">">>, <<"<", "!">>, <<"<", "!", "-", "-">>,
     <<"a", "m", "p">>}

\* What the sink may answer to query_state_change after a start tag "a":
\* nothing, or one of the text states.
Policies ==
    {NoPolicy} \cup
    {[name |-> <<"a">>, answer |-> Some(s)] :
        s \in {Data, Plaintext, RawData(Rcdata), RawData(Rawtext), RawData(ScriptData)}}

RECURSIVE Concat(_)
Concat(ss) == IF ss = <<>> THEN <<>> ELSE Head(ss) \o Concat(Tail(ss))

Available(m) == bq_available(m.input_buffers)

Call(op, input, before, after) ==
    [op |-> op, input |-> input, before |-> before, after |-> after]

InitWith(policies, optss) ==
    /\ tok \in {Tokenizer_new(p, o) : p \in policies, o \in optss}
    /\ fed = <<>>
    /\ phase = "open"
    /\ last = Call("new", <<>>, 0, 0)
    /\ dropped = {}

Init == InitWith(Policies, {DefaultOpts})

\* feed(input) discards the first character of input
DiscardsBom(m, input) == input # <<>> /\ m.discard_bom /\ input[1] = BOM

Feed(input, max) ==
    /\ phase = "open"
    /\ ~tok.panicked
    /\ Len(fed) < max
    /\ tok' = Ret(feed(tok, input), FALSE)
    /\ fed' = Append(fed, input)
    /\ last' = Call("feed", input, Available(tok) + Len(input), Available(tok'))
    /\ dropped' = IF DiscardsBom(tok, input)
                  THEN dropped \cup {Len(Concat(fed))} ELSE dropped
    /\ UNCHANGED phase

End ==
    /\ phase = "open"
    /\ ~tok.panicked
    /\ tok' = Ret(end(tok), FALSE)
    /\ phase' = "ended"
    /\ last' = Call("end", <<>>, Available(end_begin(tok)), Available(tok'))
    /\ UNCHANGED <<fed, dropped>>

Next == (\E input \in Chunks : Feed(input, MaxFeeds)) \/ End

Spec == Init /\ [][Next]_vars

\* The tokens delivered to the sink so far
Tokens == tok.sink.tokens

\* The tokenizer constructed like tok, before any call
Fresh == Tokenizer_new(tok.sink.policy, tok.opts)

\* The same tokenizer driven by feed(S); end() with S all the input given so far
Whole == end(feed(Fresh, Concat(fed)))

IsError(t, msg) == t = ParseError(<<msg>>)

-----------------------------------------------------------------------------
(* Chunk boundaries *)

\* Adjacent CharacterTokens merged into one: what a sink sees of character
\* data when it does not care how the data was cut into tokens.
RECURSIVE Coalesce(_)
Coalesce(ts) ==
    IF Len(ts) < 2 THEN ts
    ELSE IF ts[1][1] = "CharacterTokens" /\ ts[2][1] = "CharacterTokens"
         THEN Coalesce(<<CharacterTokens(ts[1][2] \o ts[2][2])>> \o SubSeq(ts, 3, Len(ts)))
         ELSE <<ts[1]>> \o Coalesce(Tail(ts))

\* C1. Chunk-boundary invariance: feed(A); feed(B); end() delivers the same
\* token stream as feed(A ++ B); end() with the same options and the same sink
\* behaviour. The streams are compared with adjacent CharacterTokens merged,
\* the reading most favourable to the claim: a run of character data is cut
\* into tokens where the chunks are cut.
C1_ChunkBoundaryInvariance ==
    (phase = "ended" /\ Len(fed) = 2) =>
        Coalesce(Tokens) = Coalesce(Whole.sink.tokens)

-----------------------------------------------------------------------------
(* Token conservation *)

\* The text a token carries: character data, U+0000 for NullCharacterToken,
\* the comment, the tag's name and its attributes' names and values.
RECURSIVE AttrsText(_)
AttrsText(attrs) ==
    IF attrs = <<>> THEN <<>>
    ELSE attrs[1].name \o attrs[1].value \o AttrsText(Tail(attrs))

TokenText(t) ==
    CASE t[1] = "CharacterTokens" -> t[2]
      [] t[1] = "NullCharacterToken" -> <<NUL>>
      [] t[1] = "CommentToken" -> t[2]
      [] t[1] = "TagToken" -> t[2] \o AttrsText(t[5])
      [] OTHER -> <<>>

RECURSIVE StreamText(_)
StreamText(ts) == IF ts = <<>> THEN <<>> ELSE TokenText(ts[1]) \o StreamText(Tail(ts))

\* HTML's transformations of an input with neither markup nor character
\* references: the byte order mark that starts the stream is discarded, and
\* CR LF and a lone CR become LF.
RECURSIVE Newlines(_)
Newlines(s) ==
    IF s = <<>> THEN <<>>
    ELSE IF s[1] = CR
         THEN <<LF>> \o Newlines(IF Len(s) > 1 /\ s[2] = LF
                                 THEN SubSeq(s, 3, Len(s)) ELSE Tail(s))
         ELSE <<s[1]>> \o Newlines(Tail(s))

StripBom(s, discard) == IF discard /\ s # <<>> /\ s[1] = BOM THEN Tail(s) ELSE s

MarkupFree(s) == \A i \in 1..Len(s) : s[i] \notin {"<", "&"}

\* C2. Token conservation: the texts of the emitted tokens, concatenated in
\* emission order, reproduce the input modulo HTML's transformations; no input
\* character is lost, duplicated or reordered. Stated for the inputs whose
\* transformed text is plain to compute: those with no '<' and no '&', which
\* in the Data state are character data throughout.
C2_TokenConservation ==
    (phase = "ended" /\ MarkupFree(Concat(fed))) =>
        StreamText(Tokens) = Newlines(StripBom(Concat(fed), tok.opts.discard_bom))

-----------------------------------------------------------------------------
(* Termination: the loops of feed and end, one iteration at a time.         *)
(* phase is "feeding" inside feed's run(), "ending" inside end's run(),     *)
(* "eof" inside end's loop over eof_step, and "ended" once end has returned. *)

MaxStepFeeds == 2

StepPolicies ==
    {NoPolicy} \cup
    {[name |-> <<"a">>, answer |-> Some(s)] : s \in {RawData(Rcdata), RawData(ScriptData)}}

InitSteps == InitWith(StepPolicies, {DefaultOpts})

FeedCall(input) ==
    /\ phase = "open"
    /\ Len(fed) < MaxStepFeeds
    /\ tok' = IF input = <<>> THEN tok ELSE feed_begin(tok, input)
    /\ phase' = IF input = <<>> THEN "open" ELSE "feeding"
    /\ fed' = Append(fed, input)
    /\ last' = Call("feed", input, Available(tok) + Len(input), Available(tok'))
    /\ dropped' = IF DiscardsBom(tok, input)
                  THEN dropped \cup {Len(Concat(fed))} ELSE dropped

\* One iteration of `while self.step() {}`
RunStep ==
    /\ phase \in {"feeding", "ending"}
    /\ tok' = step(tok)
    /\ phase' = IF tok'.ret THEN phase
                ELSE IF phase = "feeding" THEN "open" ELSE "eof"
    /\ last' = [last EXCEPT !.after = Available(tok')]
    /\ UNCHANGED <<fed, dropped>>

EndCall ==
    /\ phase = "open"
    /\ tok' = Ret(end_begin(tok), FALSE)
    /\ phase' = "ending"
    /\ last' = Call("end", <<>>, Available(tok'), Available(tok'))
    /\ UNCHANGED <<fed, dropped>>

\* One iteration of `while self.eof_step() {}`
EofStep ==
    /\ phase = "eof"
    /\ tok' = eof_step(tok)
    /\ phase' = IF tok'.ret THEN "eof" ELSE "ended"
    /\ UNCHANGED <<fed, last, dropped>>

NextSteps == (\E input \in Chunks : FeedCall(input)) \/ RunStep \/ EndCall \/ EofStep

\* A call that has started keeps executing: its loops take their next
\* iteration whenever there is one to take.
SpecSteps == InitSteps /\ [][NextSteps]_vars /\ WF_vars(RunStep) /\ WF_vars(EofStep)

\* C3. Termination: whatever was fed before, a call of end() returns: the
\* loop over step() in run() and the loop over eof_step() both come to an end.
C3_EndTerminates == (phase = "ending") ~> (phase = "ended")

\* end() has returned after running the input that was buffered for a
\* lookahead, which emitted a comment, and after the loop over eof_step
C3_Witness ==
    /\ phase = "ended"
    /\ last.op = "end" /\ last.before > 0
    /\ Len(Tokens) >= 2
    /\ Tokens[Len(Tokens) - 1][1] = "CommentToken"

-----------------------------------------------------------------------------
(* End of input *)

EofCount(ts) == Cardinality({i \in 1..Len(ts) : ts[i][1] = "EOFToken"})

EndsWithOneEof(ts) == EofCount(ts) = 1 /\ ts[Len(ts)][1] = "EOFToken"

\* C4. EOF convergence: feed never delivers an EOF token; end() delivers
\* exactly one, as the last token; and from every tokenizer state but
\* CdataSection the loop over eof_step comes to the EOF token.
C4_EofConvergence ==
    /\ phase = "open" => EofCount(Tokens) = 0
    /\ phase = "ended" => EndsWithOneEof(Tokens)
    /\ (phase = "open" /\ fed = <<>>) =>
           \A s \in States \ {St("CdataSection")} :
               LET r == eof_loop([tok EXCEPT !.state = s])
               IN ~r.panicked /\ EndsWithOneEof(r.sink.tokens)

\* end() was called while a comment was open: eof_step reports the error,
\* emits the comment, and only then the EOF token
C4_Witness ==
    /\ phase = "ended"
    /\ Len(Tokens) >= 3
    /\ IsError(Tokens[Len(Tokens) - 2], "Unexpected EOF")
    /\ Tokens[Len(Tokens) - 1][1] = "CommentToken"
    /\ Tokens[Len(Tokens)] = EOFToken

-----------------------------------------------------------------------------
(* Failures *)

\* The states in which '&' starts a character reference
CharRefStates ==
    {Data, RawData(Rcdata)} \cup {AttributeValue(q) : q \in {Unquoted, SingleQuoted, DoubleQuoted}}

\* C5. The tokenizer never halts: with default options and a sink that answers
\* query_state_change with None or a text state, no sequence of feed calls
\* followed by end reaches a fail! or a failed assert, the state is never
\* CdataSection, and a character-reference tokenizer is active only in Data,
\* RawData(Rcdata) or AttributeValue(_).
C5_NeverHalts ==
    /\ ~tok.panicked
    /\ tok.state # St("CdataSection")
    /\ IsSome(tok.char_ref_tokenizer) => tok.state \in CharRefStates

\* A character reference is under way in RCDATA, after an error was reported
C5_Witness ==
    /\ IsSome(tok.char_ref_tokenizer)
    /\ tok.state = RawData(Rcdata)
    /\ \E i \in 1..Len(Tokens) : Tokens[i][1] = "ParseError"

-----------------------------------------------------------------------------
(* Progress *)

\* The last call consumed at least one character; a U+FEFF that feed
\* discards counts as consumed.
Consumed == last.after < last.before

\* The last call left the tokenizer waiting for n > 0 characters of lookahead
Waiting == IsSome(tok.wait_for) /\ Unwrap(tok.wait_for) > 0

CallToProgress == (last.op = "feed" /\ last.input # <<>>) \/ last.op = "end"

\* C6, as claimed. Monotonic progress: every call of feed with non-empty
\* input and every call of end consumes at least one buffered character or
\* leaves wait_for = Some(n) with n > 0.
C6_MonotonicProgress == CallToProgress => (Consumed \/ Waiting)

\* C6, amended. Every call of feed with non-empty input, and every call of
\* end that has at least one character before it, consumes at least one
\* character or leaves wait_for = Some(n) with n > 0. (A call of end on a
\* drained tokenizer has nothing to consume and leaves wait_for = None.)
C6_ProgressWhenBuffered == (CallToProgress /\ last.before > 0) => (Consumed \/ Waiting)

\* end() had characters before it and consumed them
C6_Witness == last.op = "end" /\ last.before > 0 /\ Consumed /\ ~Waiting

-----------------------------------------------------------------------------
(* Attributes: a tokenizer fed tags piece by piece *)

MaxAttrFeeds == 5

\* The text that opens a tag, and the kind of the tag it opens
Openers == {<<"<", "a", SP>>, <<"<", "/", "a", SP>>}

OpenerKind(w) == IF w[2] = "/" THEN EndTag ELSE StartTag

\* The text that closes a tag; "/>" makes it self-closing
Closers == {<<">">>, <<"/", ">">>}

\* One attribute as it is written in a tag, and the attribute it denotes: its
\* name in lower case, its value without quotes and with the character
\* reference expanded.
AttrWords ==
    {<<"a", "=", "x", SP>>, <<"a", SP>>, <<"A", "=", "\"", "z", "\"", SP>>,
     <<"b", "=", "'", "y", "'", SP>>, <<"b", "=", "&", "a", "m", "p", ";", SP>>}

AttrOf(w) ==
    CASE w = <<"a", "=", "x", SP>> -> Attribute(<<"a">>, <<"x">>)
      [] w = <<"a", SP>> -> Attribute(<<"a">>, <<>>)
      [] w = <<"A", "=", "\"", "z", "\"", SP>> -> Attribute(<<"a">>, <<"z">>)
      [] w = <<"b", "=", "'", "y", "'", SP>> -> Attribute(<<"b">>, <<"y">>)
      [] w = <<"b", "=", "&", "a", "m", "p", ";", SP>> -> Attribute(<<"b">>, <<"&">>)

AttrChunks == Openers \cup AttrWords \cup Closers

InitAttr == InitWith({NoPolicy}, {DefaultOpts})

NextAttr == (\E input \in AttrChunks : Feed(input, MaxAttrFeeds)) \/ End

SpecAttr == InitAttr /\ [][NextAttr]_vars

DistinctNames(attrs) ==
    \A i, j \in 1..Len(attrs) : i # j => attrs[i].name # attrs[j].name

\* C7. Attribute uniqueness: every tag token delivered to the sink has
\* pairwise-distinct attribute names.
C7_AttributeUniqueness ==
    \A i \in 1..Len(Tokens) : Tokens[i][1] = "TagToken" => DistinctNames(Tokens[i][5])

\* A tag with two attributes was delivered after a duplicate had been dropped
C7_Witness ==
    \E i \in 1..Len(Tokens) :
        /\ Tokens[i][1] = "TagToken"
        /\ Len(Tokens[i][5]) = 2
        /\ \E j \in 1..(i - 1) : IsError(Tokens[j], "Duplicate attribute")

\* The input is one whole tag: an opener, attributes, a closer
OneTag ==
    /\ Len(fed) >= 2
    /\ fed[1] \in Openers
    /\ fed[Len(fed)] \in Closers
    /\ \A i \in 2..(Len(fed) - 1) : fed[i] \in AttrWords

\* The attributes of the tag's source text, in input order
Occurrences == [i \in 1..(Len(fed) - 2) |-> AttrOf(fed[i + 1])]

\* The first occurrence of every name, in input order
RECURSIVE FirstWins(_)
FirstWins(occ) ==
    IF occ = <<>> THEN <<>>
    ELSE LET init == SubSeq(occ, 1, Len(occ) - 1)
             l == occ[Len(occ)]
         IN IF \E j \in 1..Len(init) : init[j].name = l.name
            THEN FirstWins(init) ELSE Append(FirstWins(init), l)

Errors(n, msg) == [i \in 1..n |-> ParseError(<<msg>>)]

\* What the sink is owed for the tag: one error per dropped occurrence, the
\* errors of an end tag, then the tag with the surviving attributes.
ExpectedOfTag ==
    LET kept == FirstWins(Occurrences)
        kind == OpenerKind(fed[1])
        self_closing == fed[Len(fed)] = <<"/", ">">>
    IN Errors(Len(Occurrences) - Len(kept), "Duplicate attribute")
       \o Errors(IF kind = EndTag /\ kept # <<>> THEN 1 ELSE 0, "Attributes on an end tag")
       \o Errors(IF kind = EndTag /\ self_closing THEN 1 ELSE 0, "Self-closing end tag")
       \o <<TagToken(kind, <<"a">>, self_closing, kept)>>

\* C8. Duplicate attributes, first wins: the emitted tag keeps the first
\* occurrence of every attribute name with its own value, drops the later
\* occurrences, keeps the survivors in input order, and exactly one
\* 'Duplicate attribute' ParseError per dropped occurrence comes before the tag.
C8_FirstWins ==
    OneTag => Tokens = ExpectedOfTag \o (IF phase = "ended" THEN <<EOFToken>> ELSE <<>>)

\* A tag written with three attributes, of which the third repeats the first
\* under another spelling and value, has been tokenized
C8_Witness ==
    /\ OneTag
    /\ Len(fed) = 5
    /\ Occurrences[1].name = Occurrences[3].name
    /\ Occurrences[1].value # Occurrences[3].value
    /\ Occurrences[2].name # Occurrences[1].name
    /\ Len(Tokens) >= 2

-----------------------------------------------------------------------------
(* The byte order mark, and the empty input *)

\* C9. BOM handling: with discard_bom enabled a U+FEFF is dropped only when it
\* is the very first character of the whole input stream (stream position 0),
\* hence at most once; a U+FEFF that begins a later chunk, after other input,
\* is character data.
C9_BomOnlyAtStreamStart == dropped \subseteq {0}

\* C10. feed("") is a no-op: it delivers no token and leaves every field of
\* the tokenizer as it was, in any tokenizer state.
C10_EmptyFeedNoOp ==
    [][(last'.op = "feed" /\ last'.input = <<>>) => tok' = tok]_vars

\* feed("") was called on a tokenizer that holds input and waits for more
C10_Witness ==
    /\ last.op = "feed" /\ last.input = <<>>
    /\ Waiting
    /\ Available(tok) > 0

-----------------------------------------------------------------------------
(* The state-change back-channel.  Whole tags are fed, with text behind     *)
(* some of them, and the calls run one iteration of their loop at a time.   *)

TagChunks ==
    {<<"<", "a", ">">>, <<"<", "A", ">", "&">>, <<"<", "/", "a", ">">>,
     <<"<", "a", "/", ">", "<">>, <<"<", "b", ">">>, <<"<", "/", "b", " ", "a", ">", "a">>,
     <<"a">>, <<>>}

InitTagSteps == InitWith(Policies, {DefaultOpts})

NextTagSteps ==
    (\E input \in TagChunks : FeedCall(input)) \/ RunStep \/ EndCall \/ EofStep

SpecTagSteps == InitTagSteps /\ [][NextTagSteps]_vars

IsStartTag(t) == t[1] = "TagToken" /\ t[3] = StartTag

\* The places of the start tags in a token sequence, in order
StartTagPositions(ts) ==
    SelectSeq([i \in 1..Len(ts) |-> i], LAMBDA i : IsStartTag(ts[i]))

\* The sink received a start tag during this step.
DeliversStartTag ==
    /\ Len(tok'.sink.tokens) > Len(tok.sink.tokens)
    /\ IsStartTag(tok'.sink.tokens[Len(tok'.sink.tokens)])

\* C11. State-change back-channel: the sink is asked query_state_change
\* once right after each start tag it receives and at no other time; and
\* at the end of a step that delivered a start tag the tokenizer is in the
\* state the sink answered, or in Data if it answered None, whatever input
\* is still waiting.
C11_StateChangeBackChannel ==
    [][/\ tok'.sink.queries = StartTagPositions(tok'.sink.tokens)
       /\ DeliversStartTag =>
            LET q == sink_query_state_change(tok'.sink)
            IN tok'.state = IF IsSome(q) THEN Unwrap(q) ELSE Data]_vars

\* The sink answered RCDATA after <A>, the tokenizer is in RCDATA with the
\* "&" that follows the tag still in the buffer, and an end tag was
\* delivered before without a query.
C11_Witness ==
    /\ tok.sink.policy.answer = Some(RawData(Rcdata))
    /\ Len(Tokens) >= 2
    /\ IsStartTag(Tokens[Len(Tokens)])
    /\ \E i \in 1..Len(Tokens) : Tokens[i][1] = "TagToken" /\ Tokens[i][3] = EndTag
    /\ tok.sink.queries = <<Len(Tokens)>>
    /\ tok.state = RawData(Rcdata)
    /\ Available(tok) = 1

-----------------------------------------------------------------------------
(* The text states.  The tokenizer starts in any of them (the option        *)
(* initial_state), with and without exact_errors, and its calls run one     *)
(* iteration of their loop at a time.                                       *)

TextChunks ==
    {<<NUL>>, <<"a", NUL, "a">>, <<CR>>, <<LF, NUL>>, <<"<", NUL>>, <<"-", NUL>>,
     <<"&", NUL>>, <<"&", "#", "0", ";">>, <<"<", "/", "a", NUL>>, <<>>}

TextOpts == {TokenizerOpts(e, TRUE, Some(s), None) : e \in BOOLEAN, s \in TextStates}

InitTextSteps == InitWith({NoPolicy}, TextOpts)

NextTextSteps ==
    (\E input \in TextChunks : FeedCall(input)) \/ RunStep \/ EndCall \/ EofStep

SpecTextSteps == InitTextSteps /\ [][NextTextSteps]_vars

\* The character the tokenizer reads next, if it has one: the one to
\* reconsume, else the first in the buffer queue that is not a line feed to
\* skip after a carriage return.
NextRead(m) ==
    LET b == bq_flatten(m.input_buffers)
        rest == IF m.ignore_lf /\ b # <<>> /\ b[1] = LF THEN Tail(b) ELSE b
    IN IF m.reconsume THEN Some(m.current_char)
       ELSE IF rest = <<>> THEN None ELSE Some(rest[1])

\* A step is about to read U+0000 in a text state.
ReadsNulInText ==
    /\ phase \in {"feeding", "ending"}
    /\ tok.state \in TextStates
    /\ tok.char_ref_tokenizer = None
    /\ NextRead(tok) = Some(NUL)

\* C12. NUL handling: a step that reads U+0000 in the Data state gives the
\* sink a ParseError and then a NullCharacterToken; one that reads it in
\* RCDATA, RAWTEXT, script data (escaped and double escaped too) or
\* PLAINTEXT gives it a ParseError and then the character token U+FFFD.
C12_NulHandling ==
    [][ReadsNulInText =>
         \E e \in {tok'.sink.tokens[Len(tok.sink.tokens) + 1]} :
            /\ e[1] = "ParseError"
            /\ tok'.sink.tokens =
                 tok.sink.tokens \o
                 <<e, IF tok.state = Data THEN NullCharacterToken
                      ELSE CharacterTokens(<<REPL>>)>>]_vars

\* U+0000 was read in the double escaped script data state, where the
\* tokenizer still is, and came out as U+FFFD after a ParseError.
C12_Witness ==
    /\ tok.state = RawData(ScriptDataEscaped(DoubleEscaped))
    /\ tok.current_char = NUL
    /\ Len(Tokens) >= 2
    /\ Tokens[Len(Tokens)] = CharacterTokens(<<REPL>>)
    /\ Tokens[Len(Tokens) - 1][1] = "ParseError"

\* C13. No CharacterTokens token in the sink holds U+0000, whether it came
\* from a bulk run, a single character, the temporary buffer or a character
\* reference: a U+0000 that is character data is a NullCharacterToken of
\* its own.
C13_NoNulInCharacterTokens ==
    \A i \in 1..Len(Tokens) :
        Tokens[i][1] = "CharacterTokens" =>
            \A j \in 1..Len(Tokens[i][2]) : Tokens[i][2][j] # NUL

\* The chunk a U+0000 a went through Data: the run "a", then the U+0000 as
\* a NullCharacterToken between the runs, then the second "a".
C13_Witness ==
    /\ Len(Tokens) >= 4
    /\ Tokens[Len(Tokens)] = CharacterTokens(<<"a">>)
    /\ Tokens[Len(Tokens) - 1] = NullCharacterToken
    /\ Tokens[Len(Tokens) - 3] = CharacterTokens(<<"a">>)

-----------------------------------------------------------------------------
(* Newlines.  The tokenizer starts in any state, with and without           *)
(* exact_errors, and is fed carriage returns and line feeds, together and  *)
(* in separate chunks, among the characters its states look for.            *)

NewlineChunks ==
    {<<CR>>, <<LF>>, <<CR, LF>>, <<"a", CR>>, <<LF, "a">>, <<"&">>, <<">">>, <<"-", "-">>,
     <<"p", "u", "b", "l", "i", "c">>, <<"<", "!", "d", "o", "c", "t", "y", "p", "e", " ", "a">>,
     <<>>}

NewlineOpts ==
    {TokenizerOpts(e, TRUE, Some(s), None) :
        e \in BOOLEAN, s \in States \ {St("CdataSection")}}

InitNewlines == InitWith({NoPolicy}, NewlineOpts)

NextNewlines == (\E input \in NewlineChunks : Feed(input, MaxFeeds)) \/ End

SpecNewlines == InitNewlines /\ [][NextNewlines]_vars

\* The same tokenizer driven by feed(S); end() with S the input given so
\* far, every CR LF pair and every lone CR in it replaced by one LF
WholeNewlines == end(feed(Fresh, Newlines(Concat(fed))))

\* C14. Newline preprocessing: in every state and on every way of
\* consuming input a CR is delivered as LF and an LF right after a CR is
\* dropped, also when they come in different chunks; so the input with each
\* CR LF pair and each lone CR replaced by one LF gives the same token
\* stream (adjacent CharacterTokens merged, as chunks cut runs of text).
C14_NewlinePreprocessing ==
    phase = "ended" =>
        /\ Coalesce(Tokens) = Coalesce(WholeNewlines.sink.tokens)
        /\ tok.panicked = WholeNewlines.panicked

-----------------------------------------------------------------------------
(* What end() leaves behind *)

\* C15. end() drains character references: once end() has returned no
\* character-reference tokenizer is left active and the buffer queue is
\* empty, so every character reference begun before the EOF token, also one
\* begun while end() ran the input buffered behind a pending lookahead, was
\* finalized and its result emitted before the EOF token.
C15_EndDrainsCharRefs ==
    (phase = "ended" /\ ~tok.panicked) =>
        /\ tok.char_ref_tokenizer = None
        /\ Available(tok) = 0

-----------------------------------------------------------------------------
(* End tags in RCDATA, RAWTEXT and script data.  The tokenizer starts in    *)
(* Data or in a raw-data state, with or without a seeded                    *)
(* last_start_tag_name, and its calls run one iteration at a time.          *)

RawChunks ==
    {<<"<", "a", ">">>, <<"<", "/", "a", ">">>, <<"<", "/", "A", " ">>,
     <<"<", "/", "a", "/">>, <<"<", "/", "A", "b", CR>>, <<"<", "/", "b", ">">>,
     <<"<", "/", "b">>, <<"<", "/", "a">>, <<">">>, <<LF>>, <<"b">>, <<>>}

RawOpts ==
    {TokenizerOpts(FALSE, TRUE, s, n) :
        s \in {None} \cup {Some(RawData(k)) : k \in {Rcdata, Rawtext, ScriptData,
                                                     ScriptDataEscaped(Escaped)}},
        n \in {None, Some(<<"a">>), Some(<<"b">>)}}

InitRawSteps == InitWith(StepPolicies, RawOpts)

NextRawSteps ==
    (\E input \in RawChunks : FeedCall(input)) \/ RunStep \/ EndCall \/ EofStep

SpecRawSteps == InitRawSteps /\ [][NextRawSteps]_vars

\* The input the tokenizer has taken from the buffer queue
TakenInput == SubSeq(Concat(fed), 1, Len(Concat(fed)) - Available(tok))

\* The ASCII letters that end s
RECURSIVE TrailingLetters(_)
TrailingLetters(s) ==
    IF s = <<>> \/ s[Len(s)] \notin LowerLetters \cup UpperLetters THEN <<>>
    ELSE Append(TrailingLetters(SubSeq(s, 1, Len(s) - 1)), s[Len(s)])

\* The end-tag name read so far, as the input spelled it
NameAsWritten == TrailingLetters(TakenInput)

\* The end tag being read has the name of the last start tag.
Appropriate ==
    tok.last_start_tag_name = Some([i \in 1..Len(NameAsWritten) |-> lower_ascii(NameAsWritten[i])])

\* A step in an end-tag-name state of raw data is about to read c.
RawEndTagNameReads(c) ==
    /\ phase \in {"feeding", "ending"}
    /\ tok.state[1] = "RawEndTagName"
    /\ NextRead(tok) = Some(c)

\* C16. Appropriate end tag: in the end-tag-name states of RCDATA, RAWTEXT
\* and script data, whitespace, '/' or '>' leads to attribute parsing or to
\* the end tag only if the name read equals last_start_tag_name; otherwise
\* no tag is emitted, '<', '/' and the name as written go to the sink as
\* character tokens in that order, and the tokenizer is back in the same
\* raw-data state with the terminating character to reconsume.
C16_AppropriateEndTag ==
    [][\A c \in {TAB, LF, FF, SP, CR, "/", ">"} : RawEndTagNameReads(c) =>
         IF Appropriate
         THEN /\ tok'.state = CASE c = "/" -> St("SelfClosingStartTag")
                                [] c = ">" -> Data
                                [] OTHER -> St("BeforeAttributeName")
              /\ tok'.sink.tokens =
                   IF c = ">"
                   THEN Append(tok.sink.tokens,
                               TagToken(EndTag, Unwrap(tok.last_start_tag_name), FALSE, <<>>))
                   ELSE tok.sink.tokens
         ELSE /\ tok'.sink.tokens =
                   tok.sink.tokens \o <<CharacterTokens(<<"<">>), CharacterTokens(<<"/">>),
                                        CharacterTokens(NameAsWritten)>>
              /\ tok'.state = RawData(RawKindOf(tok.state))
              /\ tok'.reconsume
              /\ tok'.current_char = IF c = CR THEN LF ELSE c]_vars

\* After the start tag <a> put the tokenizer in RCDATA, </Ab and a CR were
\* read: the name is not "a", so '<', '/' and "Ab" came out as character
\* tokens and the tokenizer is in RCDATA with the line feed to reconsume.
C16_Witness ==
    /\ tok.state = RawData(Rcdata)
    /\ tok.last_start_tag_name = Some(<<"a">>)
    /\ tok.reconsume /\ tok.current_char = LF
    /\ Len(Tokens) >= 4
    /\ IsStartTag(Tokens[Len(Tokens) - 3])
    /\ SubSeq(Tokens, Len(Tokens) - 2, Len(Tokens)) =
         <<CharacterTokens(<<"<">>), CharacterTokens(<<"/">>), CharacterTokens(<<"A", "b">>)>>

-----------------------------------------------------------------------------
(* Tree builder (tree_builder/mod.rs).  The tree builder is the token sink
   of the tokenizer; here it is driven directly with tokens.  Its own sink
   (the TreeSink) is the sequence of the calls made on it. *)

\* Insertion modes the model distinguishes.
Initial == "Initial"

BeforeHtml == "BeforeHtml"

InBody == "InBody"

InsertionModes == {Initial, BeforeHtml, InBody}

NoQuirks == "NoQuirks"

Quirks == "Quirks"

\* SplitStatus
NotSplit == "NotSplit"

SplitStatus_Whitespace == "Whitespace"

SplitStatus_NotWhitespace == "NotWhitespace"

\* The tree builder's own character token carries a split status.
tb_CharacterTokens(status, s) == <<"CharacterTokens", status, s>>

TreeBuilderOpts(exact_errors, iframe_srcdoc, drop_doctype) ==
    [exact_errors |-> exact_errors, scripting_enabled |-> TRUE,
     iframe_srcdoc |-> iframe_srcdoc, fragment |-> FALSE,
     drop_doctype |-> drop_doctype]

\* TreeSink calls, as the sink receives them.
tree_sink_call(tb, call) == [tb EXCEPT !.sink = Append(@, call)]

tree_parse_error(tb, msg) == tree_sink_call(tb, <<"parse_error", msg>>)

\* steps is the record of the calls of step(): mode, token, outcome.
TreeBuilder_new(opts) ==
    [opts |-> opts,
     sink |-> << <<"get_document">> >>,
     mode |-> Initial,
     orig_mode |-> None,
     pending_table_text |-> <<>>,
     quirks_mode |-> NoQuirks,
     doc_handle |-> "document",
     open_elems |-> <<>>,
     active_formatting |-> <<>>,
     head_elem |-> None,
     form_elem |-> None,
     next_tokenizer_state |-> None,
     frameset_ok |-> TRUE,
     ignore_lf |-> FALSE,
     foster_parenting |-> FALSE,
     steps |-> <<>>,
     ret |-> TRUE]

is_ascii_whitespace(c) == c \in {TAB, CR, LF, FF, SP}

\* The length of the longest prefix of buf whose characters agree with the
\* first one on pred, paired with that agreement; None for an empty buf.
RECURSIVE run_length(_, _)
run_length(buf, matches) ==
    IF buf = <<>> \/ is_ascii_whitespace(Head(buf)) # matches THEN 0
    ELSE 1 + run_length(Tail(buf), matches)

\* A variant for comparison: the run is cut after its first character.
char_run_one(buf) ==
    IF buf = <<>> THEN None ELSE Some(<<1, is_ascii_whitespace(Head(buf))>>)

char_run(buf) ==
    IF buf = <<>> THEN None
    ELSE Some(<<run_length(buf, is_ascii_whitespace(Head(buf))),
                is_ascii_whitespace(Head(buf))>>)

\* The doctype table: is the doctype an error, and which quirks mode does it
\* select.  dt is a DoctypeToken.
doctype_error_and_quirks(dt, iframe_srcdoc) ==
    LET name == dt[2]
        public == dt[3]
        system == dt[4]
        err == ~(name = Some(<<"h", "t", "m", "l">>) /\ public = None /\ system = None)
        quirk == CASE dt[5] -> Quirks
                   [] name # Some(<<"h", "t", "m", "l">>) -> Quirks
                   [] iframe_srcdoc -> NoQuirks
                   [] public = Some(<<"h", "t", "m", "l">>) -> Quirks
                   [] OTHER -> NoQuirks
    IN <<err, quirk>>

set_quirks_mode(tb, mode) ==
    tree_sink_call([tb EXCEPT !.quirks_mode = mode], <<"set_quirks_mode", mode>>)

\* format_if!(exact_errors, literal, format, arg)
format_if(exact, literal, arg) == IF exact THEN <<literal, arg>> ELSE literal

unwrap_or_empty(o) == IF IsSome(o) THEN Unwrap(o) ELSE <<>>

\* What one call of step() yields: its outcome, the mode of a Reprocess,
\* and what the rule did to the tree builder on the way.
StepResult(outcome, mode, effect) == [outcome |-> outcome, mode |-> mode, effect |-> effect]

StepResults ==
    {StepResult("Done", Initial, "none"), StepResult("Done", Initial, "pre"),
     StepResult("DoneAckSelfClosing", Initial, "none"),
     StepResult("Reprocess", InBody, "none"),
     StepResult("SplitWhitespace", Initial, "none")}

\* The outcomes the rules can produce for a token: only an unsplit
\* character token is split, only a start tag is acknowledged, and only
\* the start tag "pre" has the effect of the rule for "pre".
step_may_return(token, r) ==
    /\ r.outcome = "SplitWhitespace" => token[1] = "CharacterTokens" /\ token[2] = NotSplit
    /\ r.outcome = "DoneAckSelfClosing" => token[1] = "TagToken" /\ token[3] = StartTag
    /\ r.effect = "pre" => token[1] = "TagToken" /\ token[3] = StartTag /\ token[2] = <<"p", "r", "e">>

\* step(mode, token) with the result r: the rule for "pre" inserts the
\* element, clears frameset_ok and asks for a following line feed to be
\* ignored; every call is recorded in steps.
tb_step(tb, mode, token, r) ==
    LET t == [tb EXCEPT !.steps = Append(@, <<mode, token, r.outcome>>)]
    IN IF r.effect = "pre"
       THEN [tree_sink_call(tree_sink_call(t, <<"create_element", token[2]>>),
                            <<"append", token[2]>>)
                EXCEPT !.open_elems = Append(@, token[2]),
                       !.frameset_ok = FALSE,
                       !.ignore_lf = TRUE]
       ELSE t

\* The tail of a Done arm: the next queued token, or return.
RECURSIVE process_to_completion_loop(_, _, _, _)
next_or_return(tb, more_tokens, oracle) ==
    IF more_tokens = <<>> THEN Ret(tb, oracle = <<>>)
    ELSE process_to_completion_loop(tb, Head(more_tokens), Tail(more_tokens), oracle)

\* The SplitWhitespace arm: the first run becomes the token, the rest is
\* queued unsplit.
split_whitespace(tb, buf, more_tokens, oracle) ==
    LET found == char_run(buf)
    IN IF found = None THEN Ret(tb, oracle = <<>>)
       ELSE LET len == Unwrap(found)[1]
                is_ws == Unwrap(found)[2]
            IN process_to_completion_loop(
                   tb,
                   tb_CharacterTokens(IF is_ws THEN SplitStatus_Whitespace
                                      ELSE SplitStatus_NotWhitespace,
                                      SubSeq(buf, 1, len)),
                   IF len < Len(buf)
                   THEN Append(more_tokens,
                               tb_CharacterTokens(NotSplit, SubSeq(buf, len + 1, Len(buf))))
                   ELSE more_tokens,
                   oracle)

\* The arms of the match on the outcome of step; stepped is the tree
\* builder after the call.
react(stepped, is_self_closing, token, more_tokens, r, oracle) ==
    CASE r.outcome = "Done" ->
           next_or_return(IF is_self_closing
                          THEN tree_parse_error(stepped, "Unacknowledged self-closing tag")
                          ELSE stepped,
                          more_tokens, oracle)
      [] r.outcome = "DoneAckSelfClosing" ->
           next_or_return(stepped, more_tokens, oracle)
      [] r.outcome = "Reprocess" ->
           process_to_completion_loop([stepped EXCEPT !.mode = r.mode],
                                      token, more_tokens, oracle)
      [] OTHER ->
           split_whitespace(stepped, token[3], more_tokens, oracle)

\* The loop of process_to_completion; oracle is the sequence of results
\* the calls of step yield.  ret tells that the loop returned having used
\* all of them.
process_to_completion_loop(tb, token, more_tokens, oracle) ==
    IF oracle = <<>> \/ ~step_may_return(token, Head(oracle)) THEN Ret(tb, FALSE)
    ELSE react(tb_step(tb, tb.mode, token, Head(oracle)),
               IF token[1] = "TagToken" THEN token[4] ELSE FALSE,
               token, more_tokens, Head(oracle), Tail(oracle))

process_to_completion(tb, token, oracle) ==
    process_to_completion_loop(tb, token, <<>>, oracle)

\* A variant for comparison: a doctype is appended in whatever mode.
process_doctype_any_mode(tb, dt) ==
    LET eq == doctype_error_and_quirks(dt, tb.opts.iframe_srcdoc)
        t1 == IF eq[1]
              THEN tree_parse_error(tb, format_if(tb.opts.exact_errors, "Bad DOCTYPE", dt))
              ELSE tb
        t2 == IF ~tb.opts.drop_doctype
              THEN tree_sink_call(t1, <<"append_doctype_to_document",
                                        unwrap_or_empty(dt[2]),
                                        unwrap_or_empty(dt[3]),
                                        unwrap_or_empty(dt[4])>>)
              ELSE t1
    IN [set_quirks_mode(t2, eq[2]) EXCEPT !.mode = BeforeHtml]

\* The DoctypeToken arm of process_token.
process_doctype(tb, dt) ==
    IF tb.mode = Initial
    THEN LET eq == doctype_error_and_quirks(dt, tb.opts.iframe_srcdoc)
             t1 == IF eq[1]
                   THEN tree_parse_error(tb, format_if(tb.opts.exact_errors, "Bad DOCTYPE", dt))
                   ELSE tb
             t2 == IF ~tb.opts.drop_doctype
                   THEN tree_sink_call(t1, <<"append_doctype_to_document",
                                             unwrap_or_empty(dt[2]),
                                             unwrap_or_empty(dt[3]),
                                             unwrap_or_empty(dt[4])>>)
                   ELSE t1
         IN [set_quirks_mode(t2, eq[2]) EXCEPT !.mode = BeforeHtml]
    ELSE tree_parse_error(tb, format_if(tb.opts.exact_errors, "DOCTYPE in body", tb.mode))

\* The CharacterTokens arm of process_token.
\* A variant for comparison: the line feed is dropped whether or not
\* ignore_lf was set.
process_characters_any_lf(tb, ignore_lf, x, oracle) ==
    LET x1 == IF Len(x) >= 1 /\ x[1] = LF THEN Tail(x) ELSE x
    IN IF x1 = <<>> THEN Ret(tb, oracle = <<>>)
       ELSE process_to_completion(tb, tb_CharacterTokens(NotSplit, x1), oracle)

process_characters(tb, ignore_lf, x, oracle) ==
    LET x1 == IF ignore_lf /\ Len(x) >= 1 /\ x[1] = LF THEN Tail(x) ELSE x
    IN IF x1 = <<>> THEN Ret(tb, oracle = <<>>)
       ELSE process_to_completion(tb, tb_CharacterTokens(NotSplit, x1), oracle)

\* TreeBuilder::process_token.  ignore_lf is taken and reset first, for
\* every token.
tb_process_token(m, token, oracle) ==
    LET ignore_lf == m.ignore_lf
        tb == [m EXCEPT !.ignore_lf = FALSE]
    IN CASE token[1] = "ParseError" ->
              Ret(tree_parse_error(tb, token[2]), oracle = <<>>)
         [] token[1] = "DoctypeToken" ->
              Ret(process_doctype(tb, token), oracle = <<>>)
         [] token[1] = "CharacterTokens" ->
              process_characters(tb, ignore_lf, token[2], oracle)
         [] OTHER ->
              process_to_completion(tb, token, oracle)

-----------------------------------------------------------------------------
(* The tree builder driven token by token.  tok is the tree builder, fed
   the tokens given to process_token so far. *)

MaxTreeTokens == 3

MaxTreeSteps == 3

Html == <<"h", "t", "m", "l">>

TreeDoctypes ==
    {DoctypeToken([name |-> Some(Html), public_id |-> None, system_id |-> None,
                   force_quirks |-> FALSE]),
     DoctypeToken([name |-> Some(Html), public_id |-> Some(Html), system_id |-> None,
                   force_quirks |-> FALSE]),
     DoctypeToken([name |-> None, public_id |-> None, system_id |-> None,
                   force_quirks |-> TRUE])}

TreeTokens ==
    TreeDoctypes \cup
    {ParseError("e"),
     TagToken(StartTag, <<"p", "r", "e">>, FALSE, <<>>),
     TagToken(StartTag, <<"b", "r">>, TRUE, <<>>),
     TagToken(EndTag, <<"p">>, TRUE, <<>>),
     TagToken(EndTag, <<"p">>, FALSE, <<>>),
     CharacterTokens(<<LF, "A">>), CharacterTokens(<<LF>>), CharacterTokens(<<SP, "A">>),
     EOFToken}

\* The results the calls of step may yield during one process_token.
Oracles == UNION {[1..n -> StepResults] : n \in 0..MaxTreeSteps}

TreeOpts ==
    {TreeBuilderOpts(e, i, d) : e \in BOOLEAN, i \in BOOLEAN, d \in BOOLEAN}

InitTree ==
    /\ tok \in {TreeBuilder_new(o) : o \in TreeOpts}
    /\ fed = <<>>
    /\ phase = "open"
    /\ last = Call("new", <<>>, 0, 0)
    /\ dropped = {}

ProcessToken(token, oracle) ==
    /\ phase = "open"
    /\ Len(fed) < MaxTreeTokens
    /\ LET after == tb_process_token(tok, token, oracle)
       IN /\ after.ret
          /\ Len(after.steps) <= MaxTreeSteps
          /\ tok' = after
    /\ fed' = Append(fed, token)
    /\ last' = Call("process_token", token, Len(tok.steps), Len(tok'.steps))
    /\ UNCHANGED <<phase, dropped>>

NextTree == \E token \in TreeTokens, oracle \in Oracles : ProcessToken(token, oracle)

SpecTree == InitTree /\ [][NextTree]_vars

\* The last call of process_token was given a token of this kind.
Processes(kind) == fed' = Append(fed, fed'[Len(fed')]) /\ fed'[Len(fed')][1] = kind

\* The fields of the tree builder that hold its parsing state.
TreeState(tb) ==
    <<tb.mode, tb.orig_mode, tb.open_elems, tb.active_formatting,
      tb.next_tokenizer_state, tb.frameset_ok, tb.ignore_lf>>

\* C17: process_token(ParseError(e)) calls sink.parse_error(e) once, makes
\* no other sink call, and leaves mode, orig_mode, open_elems,
\* active_formatting, next_tokenizer_state, frameset_ok and ignore_lf as
\* they were.
C17_ParseErrorPassThrough ==
    [][Processes("ParseError") =>
         /\ tok'.sink = Append(tok.sink, <<"parse_error", fed'[Len(fed')][2]>>)
         /\ tok'.steps = tok.steps
         /\ TreeState(tok') = TreeState(tok)]_vars

\* The sink calls a step of the specification added.
NewCalls == SubSeq(tok'.sink, Len(tok.sink) + 1, Len(tok'.sink))

CallCount(calls, name) == Cardinality({i \in 1..Len(calls) : calls[i][1] = name})

\* C18: a Doctype token in Initial mode causes at most one parse error,
\* one append_doctype_to_document (none under drop_doctype), one setting
\* of the quirks mode, and mode BeforeHtml; in any other mode exactly one
\* parse_error and nothing else, with mode, open_elems and
\* active_formatting unchanged.  It never reaches step().
C18_DoctypeTokens ==
    [][Processes("DoctypeToken") =>
         /\ tok'.steps = tok.steps
         /\ IF tok.mode = Initial
            THEN /\ CallCount(NewCalls, "parse_error") <= 1
                 /\ CallCount(NewCalls, "append_doctype_to_document") =
                        (IF tok.opts.drop_doctype THEN 0 ELSE 1)
                 /\ CallCount(NewCalls, "set_quirks_mode") = 1
                 /\ Len(NewCalls) = CallCount(NewCalls, "parse_error")
                                    + CallCount(NewCalls, "append_doctype_to_document") + 1
                 /\ tok'.quirks_mode = NewCalls[Len(NewCalls)][2]
                 /\ tok'.mode = BeforeHtml
            ELSE /\ Len(NewCalls) = 1
                 /\ NewCalls[1][1] = "parse_error"
                 /\ tok'.mode = tok.mode
                 /\ tok'.open_elems = tok.open_elems
                 /\ tok'.active_formatting = tok.active_formatting]_vars

\* A quirky doctype was reported and appended in Initial mode, and a
\* second doctype, after a start tag, was refused in InBody.
C18_Witness ==
    /\ Len(fed) = 3
    /\ fed[1][1] = "DoctypeToken" /\ fed[1][3] = Some(Html)
    /\ fed[2][1] = "TagToken" /\ fed[3][1] = "DoctypeToken"
    /\ tok.mode = InBody
    /\ tok.quirks_mode = Quirks
    /\ tok.open_elems = << <<"p", "r", "e">> >>
    /\ tok.sink = << <<"get_document">>,
                     <<"parse_error", "Bad DOCTYPE">>,
                     <<"append_doctype_to_document", Html, Html, <<>>>>,
                     <<"set_quirks_mode", Quirks>>,
                     <<"create_element", <<"p", "r", "e">>>>,
                     <<"append", <<"p", "r", "e">>>>,
                     <<"parse_error", "DOCTYPE in body">> >>

Unacknowledged(calls) ==
    Cardinality({i \in 1..Len(calls) :
                    calls[i] = <<"parse_error", "Unacknowledged self-closing tag">>})

\* C19: for a tag token, "Unacknowledged self-closing tag" is reported
\* once if the token is a start tag with self_closing set and the last
\* outcome of step is Done, and not at all otherwise.
C19_SelfClosingAcknowledgement ==
    [][Processes("TagToken") =>
         Unacknowledged(NewCalls) =
             (IF /\ fed'[Len(fed')][3] = StartTag
                 /\ fed'[Len(fed')][4]
                 /\ tok'.steps[Len(tok'.steps)][3] = "Done"
              THEN 1 ELSE 0)]_vars

-----------------------------------------------------------------------------
(* OwnedDom sink (sink/owned_dom.rs).  A Handle is the position of its
   node in Sink.nodes, the null handle is 0.  ret holds what the last
   TreeSink call returned. *)

Handle_null == 0

\* NodeEnum
Document == <<"Document">>

Text(s) == <<"Text", s>>

Element(name, attrs) == <<"Element", name, attrs>>

Doctype(name, public_id, system_id) == <<"Doctype", name, public_id, system_id>>

\* NodeOrText
AppendNode(h) == <<"AppendNode", h>>

AppendText(s) == <<"AppendText", s>>

Ok == <<"Ok">>

Err(x) == <<"Err", x>>

SquishyNode_new(node) == [node |-> node, parent |-> Handle_null, children |-> <<>>]

\* Sink::new_node; the handle it returns is the new length of nodes.
new_node(sink, node) == [sink EXCEPT !.nodes = Append(@, SquishyNode_new(node))]

Sink_default ==
    new_node([nodes |-> <<>>, document |-> 1, errors |-> <<>>, quirks_mode |-> NoQuirks,
              ret |-> <<>>, panicked |-> FALSE],
             Document)

\* fn append: the child is pushed before its parent is asserted null.
append(sink, new_parent, child) ==
    LET pushed == [sink EXCEPT !.nodes[new_parent].children = Append(@, child)]
    IN IF pushed.nodes[child].parent # Handle_null THEN Panic(pushed)
       ELSE [pushed EXCEPT !.nodes[child].parent = new_parent]

\* The positions (from 0) of child in its parent's children.
positions_in_parent(sink, child) ==
    {i - 1 : i \in {j \in 1..Len(sink.nodes[sink.nodes[child].parent].children) :
                       sink.nodes[sink.nodes[child].parent].children[j] = child}}

\* get_parent_and_index fails when the parent does not list the child.
parent_lost(sink, child) ==
    /\ sink.nodes[child].parent # Handle_null
    /\ positions_in_parent(sink, child) = {}

Min(S) == CHOOSE x \in S : \A y \in S : x <= y

\* A variant for comparison: a first child counts as having no parent.
get_parent_and_index_not_first(sink, child) ==
    IF sink.nodes[child].parent = Handle_null \/ 0 \in positions_in_parent(sink, child)
    THEN None
    ELSE Some(<<sink.nodes[child].parent, Min(positions_in_parent(sink, child))>>)

get_parent_and_index(sink, child) ==
    IF sink.nodes[child].parent = Handle_null THEN None
    ELSE Some(<<sink.nodes[child].parent, Min(positions_in_parent(sink, child))>>)

\* append_to_existing_text: whether prev is a text node, and the sink with
\* the text pushed onto it if so.
is_text(sink, prev) == sink.nodes[prev].node[1] = "Text"

append_to_existing_text(sink, prev, text) ==
    IF is_text(sink, prev) THEN [sink EXCEPT !.nodes[prev].node[2] = @ \o text] ELSE sink

Sink_create_element(sink, name, attrs) ==
    Ret(new_node(sink, Element(name, attrs)), Len(sink.nodes) + 1)

\* Vec::remove(i) and Vec::insert(i, x), i from 0.
vec_remove(v, i) == SubSeq(v, 1, i) \o SubSeq(v, i + 2, Len(v))

vec_insert(v, i, x) == SubSeq(v, 1, i) \o <<x>> \o SubSeq(v, i + 1, Len(v))

\* remove_from_parent that takes the node off the list and leaves its
\* parent link
Sink_remove_from_parent_keeps_link(sink, target) ==
    IF parent_lost(sink, target) THEN Panic(sink)
    ELSE LET pi == get_parent_and_index(sink, target)
         IN IF pi = None THEN Ret(sink, <<>>)
            ELSE Ret([sink EXCEPT !.nodes[Unwrap(pi)[1]].children = vec_remove(@, Unwrap(pi)[2])],
                     <<>>)

Sink_remove_from_parent(sink, target) ==
    IF parent_lost(sink, target) THEN Panic(sink)
    ELSE LET pi == get_parent_and_index(sink, target)
         IN IF pi = None THEN Ret(sink, <<>>)
            ELSE Ret([sink EXCEPT !.nodes[Unwrap(pi)[1]].children = vec_remove(@, Unwrap(pi)[2]),
                                  !.nodes[target].parent = Handle_null],
                     <<>>)

\* TreeSink::append
Sink_append(sink, parent, child) ==
    IF /\ child[1] = "AppendText"
       /\ sink.nodes[parent].children # <<>>
       /\ is_text(sink, sink.nodes[parent].children[Len(sink.nodes[parent].children)])
    THEN Ret(append_to_existing_text(
                 sink, sink.nodes[parent].children[Len(sink.nodes[parent].children)],
                 child[2]),
             <<>>)
    ELSE IF child[1] = "AppendText"
         THEN Ret(append(new_node(sink, Text(child[2])), parent, Len(sink.nodes) + 1), <<>>)
         ELSE Ret(append(sink, parent, child[2]), <<>>)

\* The tail of append_before_sibling: child, a handle, is detached from
\* its parent if it has one and inserted at i, the index found before.
insert_child(sink, parent, i, child) ==
    LET detached == IF sink.nodes[child].parent # Handle_null
                    THEN Sink_remove_from_parent(sink, child)
                    ELSE sink
    IN IF detached.panicked \/ i > Len(detached.nodes[parent].children)
       THEN Panic(detached)
       ELSE Ret([detached EXCEPT !.nodes[child].parent = parent,
                                 !.nodes[parent].children = vec_insert(@, i, child)],
                Ok)

found_before_sibling(sink, parent, i, child) ==
    CASE child[1] = "AppendText" /\ i = 0 ->
           insert_child(new_node(sink, Text(child[2])), parent, i, Len(sink.nodes) + 1)
      [] child[1] = "AppendText" /\ i # 0 ->
           IF is_text(sink, sink.nodes[parent].children[i])
           THEN Ret(append_to_existing_text(sink, sink.nodes[parent].children[i], child[2]), Ok)
           ELSE insert_child(new_node(sink, Text(child[2])), parent, i, Len(sink.nodes) + 1)
      [] OTHER ->
           insert_child(sink, parent, i, child[2])

Sink_append_before_sibling(sink, sibling, child) ==
    IF parent_lost(sink, sibling) THEN Panic(sink)
    ELSE LET pi == get_parent_and_index(sink, sibling)
         IN IF pi = None THEN Ret(sink, Err(child))
            ELSE found_before_sibling(sink, Unwrap(pi)[1], Unwrap(pi)[2], child)

\* A variant for comparison: every given attribute is appended.
Sink_add_attrs_if_missing_all(sink, target, attrs) ==
    IF sink.nodes[target].node[1] # "Element" THEN Ret(sink, <<>>)
    ELSE Ret([sink EXCEPT !.nodes[target].node[3] = @ \o attrs], <<>>)

\* attrs.retain(..) keeps the given attributes no existing one shares the
\* name of; push_all_move appends what is kept.
Sink_add_attrs_if_missing(sink, target, attrs) ==
    IF sink.nodes[target].node[1] # "Element" THEN Ret(sink, <<>>)
    ELSE Ret([sink EXCEPT !.nodes[target].node[3] =
                  @ \o SelectSeq(attrs,
                                 LAMBDA attr : ~\E k \in 1..Len(@) : @[k].name = attr.name)],
             <<>>)

Sink_append_doctype_to_document(sink, name, public_id, system_id) ==
    Ret(append(new_node(sink, Doctype(name, public_id, system_id)),
               sink.document, Len(sink.nodes) + 1),
        <<>>)

-----------------------------------------------------------------------------
(* The OwnedDom sink driven call by call.  tok is the sink, last the call
   made last; fed is not used. *)

MaxNodes == 3

MaxTextLen == 2

Handles(sink) == 1..Len(sink.nodes)

Children(sink) ==
    {AppendNode(h) : h \in Handles(sink)} \cup {AppendText(<<"a">>)}

\* The sink stays within the bounds of the model.
WithinDomBounds(sink) ==
    /\ Len(sink.nodes) <= MaxNodes
    /\ \A h \in Handles(sink) : is_text(sink, h) => Len(sink.nodes[h].node[2]) <= MaxTextLen

InitDom ==
    /\ tok = Sink_default
    /\ fed = <<>>
    /\ phase = "open"
    /\ last = Call("default", <<>>, 0, 1)
    /\ dropped = {}

SinkCall(op, input, after) ==
    /\ phase = "open"
    /\ ~tok.panicked
    /\ WithinDomBounds(after)
    /\ tok' = after
    /\ last' = Call(op, input, Len(tok.nodes), Len(after.nodes))
    /\ UNCHANGED <<fed, phase, dropped>>

CreateElement ==
    SinkCall("create_element", <<"a">>, Sink_create_element(tok, <<"a">>, <<>>))

AppendCall ==
    \E parent \in Handles(tok), child \in Children(tok) :
        SinkCall("append", <<parent, child>>, Sink_append(tok, parent, child))

AppendBeforeSibling ==
    \E sibling \in Handles(tok), child \in Children(tok) :
        SinkCall("append_before_sibling", <<sibling, child>>,
                 Sink_append_before_sibling(tok, sibling, child))

AppendDoctype ==
    SinkCall("append_doctype_to_document", <<Html>>,
             Sink_append_doctype_to_document(tok, Html, <<>>, <<>>))

RemoveFromParent ==
    \E target \in Handles(tok) :
        SinkCall("remove_from_parent", <<target>>, Sink_remove_from_parent(tok, target))

\* The attribute lists given to add_attrs_if_missing: new names, names
\* already given with another value, and a name given twice.
GivenAttrs ==
    {<<Attribute(<<"x">>, <<"1">>)>>,
     <<Attribute(<<"x">>, <<"2">>), Attribute(<<"y">>, <<"1">>)>>,
     <<Attribute(<<"y">>, <<"2">>), Attribute(<<"x">>, <<"3">>)>>,
     <<Attribute(<<"z">>, <<"1">>), Attribute(<<"z">>, <<"2">>)>>}

AddAttrs ==
    \E target \in Handles(tok), attrs \in GivenAttrs :
        SinkCall("add_attrs_if_missing", <<target, attrs>>,
                 Sink_add_attrs_if_missing(tok, target, attrs))

NextDom ==
    CreateElement \/ AppendCall \/ AppendBeforeSibling \/ AppendDoctype \/ RemoveFromParent

\* The sink given elements, doctypes and attributes only.
NextDomAttrs == CreateElement \/ AppendDoctype \/ AddAttrs

SpecDomAttrs == InitDom /\ [][NextDomAttrs]_vars

SpecDom == InitDom /\ [][NextDom]_vars

\* C20: append_before_sibling returns Err with the child given exactly
\* when the sibling has no parent, and then no node is created and no
\* link changed; otherwise it returns Ok.
C20_AppendBeforeSiblingResult ==
    [][last'.op = "append_before_sibling" =>
         /\ tok'.ret = Err(last'.input[2]) <=> tok.nodes[last'.input[1]].parent = Handle_null
         /\ tok'.ret = Err(last'.input[2]) => tok'.nodes = tok.nodes
         /\ tok'.ret # Err(last'.input[2]) => tok'.ret = Ok /\ ~tok'.panicked]_vars

\* A text was refused in front of an element that has no parent, while
\* another node sits in the document.
C20_Witness ==
    /\ last.op = "append_before_sibling"
    /\ last.input = <<3, AppendText(<<"a">>)>>
    /\ tok.ret = Err(AppendText(<<"a">>))
    /\ Len(tok.nodes) = 3
    /\ tok.nodes[3].parent = Handle_null
    /\ tok.nodes[1].children = <<2>>

AttrNames(attrs) == {attrs[k].name : k \in 1..Len(attrs)}

\* The positions of the given attributes whose name the element lacks.
Missing(existing, given) ==
    {j \in 1..Len(given) : given[j].name \notin AttrNames(existing)}

\* C21: add_attrs_if_missing keeps every attribute of the element where
\* it is, appends exactly the given attributes whose name the element
\* lacks, in the order given, and changes nothing on a node that is no
\* element; no other node is touched.
C21_AddAttrsIfMissing ==
    [][last'.op = "add_attrs_if_missing" =>
         LET target == last'.input[1]
             given == last'.input[2]
         IN IF tok.nodes[target].node[1] # "Element"
            THEN tok'.nodes = tok.nodes
            ELSE LET existing == tok.nodes[target].node[3]
                     merged == tok'.nodes[target].node[3]
                 IN /\ SubSeq(merged, 1, Len(existing)) = existing
                    /\ Len(merged) = Len(existing) + Cardinality(Missing(existing, given))
                    /\ \A j \in Missing(existing, given) :
                          merged[Len(existing)
                                 + Cardinality({k \in Missing(existing, given) : k <= j})]
                             = given[j]
                    /\ \A h \in Handles(tok) : h # target => tok'.nodes[h] = tok.nodes[h]
                    /\ tok'.nodes[target].node[2] = tok.nodes[target].node[2]
                    /\ tok'.nodes[target].parent = tok.nodes[target].parent
                    /\ tok'.nodes[target].children = tok.nodes[target].children]_vars

\* An element holding x = 1 was given x = 2 and y = 1: x kept its value
\* and y was appended.
C21_Witness ==
    /\ last.op = "add_attrs_if_missing"
    /\ last.input = <<2, <<Attribute(<<"x">>, <<"2">>), Attribute(<<"y">>, <<"1">>)>> >>
    /\ tok.nodes[2].node =
           Element(<<"a">>, <<Attribute(<<"x">>, <<"1">>), Attribute(<<"y">>, <<"1">>)>>)

-----------------------------------------------------------------------------
(* Atom (util/atom/mod.rs).  A &'static str is a pointer into the static
   data of the program and a length; which strings lie where is the
   build's choice, so the static data is a small memory in which one
   string occurs at two addresses and strings share their first address. *)

StaticData == <<"a", "b", "a">>

Static(ptr, len) == <<"Static", ptr, len>>

Owned(s) == <<"Owned", s>>

StaticStrs ==
    {x \in {Static(ptr, len) : ptr \in 1..Len(StaticData), len \in 0..Len(StaticData)} :
        x[2] + x[3] - 1 <= Len(StaticData)}

Atoms == StaticStrs \cup {Owned(<<>>), Owned(<<"a">>), Owned(<<"b">>), Owned(<<"a", "b">>)}

Atom_as_slice(x) ==
    IF x[1] = "Static" THEN SubSeq(StaticData, x[2], x[2] + x[3] - 1) ELSE x[2]

\* impl Eq for Atom: two Static atoms compare by address alone.
Atom_eq(x, y) ==
    IF x[1] = "Static" /\ y[1] = "Static" THEN x[2] = y[2]
    ELSE Atom_as_slice(x) = Atom_as_slice(y)

\* Three atoms are drawn and compared with ==; tok holds them and what
\* the comparisons gave.
InitAtoms ==
    /\ tok \in [a : Atoms, b : Atoms, c : Atoms, eq : {<<>>}]
    /\ fed = <<>>
    /\ phase = "open"
    /\ last = Call("new", <<>>, 0, 0)
    /\ dropped = {}

CompareAtoms ==
    /\ phase = "open"
    /\ tok' = [tok EXCEPT !.eq = [aa |-> Atom_eq(tok.a, tok.a),
                                  ab |-> Atom_eq(tok.a, tok.b),
                                  ba |-> Atom_eq(tok.b, tok.a),
                                  bc |-> Atom_eq(tok.b, tok.c),
                                  ac |-> Atom_eq(tok.a, tok.c)]]
    /\ phase' = "ended"
    /\ last' = Call("eq", <<tok.a, tok.b, tok.c>>, 0, 0)
    /\ UNCHANGED <<fed, dropped>>

NextAtoms == CompareAtoms

SpecAtoms == InitAtoms /\ [][NextAtoms]_vars

\* C22: a == b exactly when a.as_slice() == b.as_slice(), for Static and
\* Owned atoms alike.
C22_AtomEquality ==
    phase = "ended" => tok.eq.ab = (Atom_as_slice(tok.a) = Atom_as_slice(tok.b))

-----------------------------------------------------------------------------
(* C-ABI token sink (capi/tokenizer.rs).  ops is the set of the callbacks
   that are not null, calls the calls made on the C side, each with its
   arguments after the user pointer. *)

h5e_buf_from_slice(x) == [data |-> x, len |-> Len(x)]

h5e_buf_null == [data |-> "null", len |-> 0]

c_bool(x) == IF x THEN 1 ELSE 0

str_to_buf(s) == h5e_buf_from_slice(s)

opt_str_to_buf(s) == IF s = None THEN h5e_buf_null ELSE h5e_buf_from_slice(Unwrap(s))

h5e_token_ops ==
    {"do_doctype", "do_start_tag", "do_tag_attr", "do_end_tag", "do_comment",
     "do_characters", "do_null_character", "do_eof", "do_error"}

h5e_token_sink(ops) == [ops |-> ops, calls |-> <<>>]

\* call!(name, args..): the callback is called unless it is null.
call(sink, name, args) ==
    IF name \in sink.ops THEN [sink EXCEPT !.calls = Append(@, <<name>> \o args)] ELSE sink

\* for attr in attrs.move_iter() { call!(do_tag_attr, name, value) }: the
\* name passed is the tag's.
RECURSIVE call_tag_attrs(_, _, _)
call_tag_attrs(sink, name, attrs) ==
    IF attrs = <<>> THEN sink
    ELSE call_tag_attrs(call(sink, "do_tag_attr",
                             <<h5e_buf_from_slice(name), str_to_buf(Head(attrs).value)>>),
                        name, Tail(attrs))

\* impl TokenSink for h5e_token_sink: process_token
h5e_process_token(sink, token) ==
    CASE token[1] = "DoctypeToken" ->
           call(sink, "do_doctype",
                <<opt_str_to_buf(token[2]), opt_str_to_buf(token[3]),
                  opt_str_to_buf(token[4]), c_bool(token[5])>>)
      [] token[1] = "TagToken" /\ token[3] = StartTag ->
           call_tag_attrs(call(sink, "do_start_tag",
                               <<h5e_buf_from_slice(token[2]), c_bool(token[4]),
                                 Len(token[5])>>),
                          token[2], token[5])
      [] token[1] = "TagToken" /\ token[3] = EndTag ->
           call(sink, "do_end_tag", <<h5e_buf_from_slice(token[2])>>)
      [] token[1] = "CommentToken" -> call(sink, "do_comment", <<str_to_buf(token[2])>>)
      [] token[1] = "CharacterTokens" -> call(sink, "do_comment", <<str_to_buf(token[2])>>)
      [] token[1] = "NullCharacterToken" -> call(sink, "do_null_character", <<>>)
      [] token[1] = "EOFToken" -> call(sink, "do_eof", <<>>)
      [] OTHER -> call(sink, "do_error", <<h5e_buf_from_slice(token[2])>>)

-----------------------------------------------------------------------------
(* The C-ABI sink given tokens one by one.  tok is the sink, fed the
   tokens given so far. *)

MaxCapiTokens == 2

CapiTokens ==
    TreeTokens \cup
    {TagToken(StartTag, <<"a">>, FALSE,
              <<Attribute(<<"x">>, <<"1">>), Attribute(<<"y">>, <<"2">>)>>),
     CommentToken(<<"c">>), CommentToken(<<LF, "A">>), NullCharacterToken}

\* All callbacks given, or one of them null.
CapiOps == {h5e_token_ops} \cup {h5e_token_ops \ {name} : name \in h5e_token_ops}

InitCapi ==
    /\ tok \in {h5e_token_sink(ops) : ops \in CapiOps}
    /\ fed = <<>>
    /\ phase = "open"
    /\ last = Call("new", <<>>, 0, 0)
    /\ dropped = {}

CapiProcessToken(token) ==
    /\ phase = "open"
    /\ Len(fed) < MaxCapiTokens
    /\ tok' = h5e_process_token(tok, token)
    /\ fed' = Append(fed, token)
    /\ last' = Call("process_token", token, Len(tok.calls), Len(tok'.calls))
    /\ UNCHANGED <<phase, dropped>>

NextCapi == \E token \in CapiTokens : CapiProcessToken(token)

SpecCapi == InitCapi /\ [][NextCapi]_vars

\* The calls a step added on the C side.
NewCapiCalls == SubSeq(tok'.calls, Len(tok.calls) + 1, Len(tok'.calls))

\* C23: a CharacterTokens token is delivered to do_characters when that
\* callback is given, and do_comment is called for a CommentToken only.
C23_CharactersToDoCharacters ==
    [][/\ Processes("CharacterTokens") /\ "do_characters" \in tok.ops =>
              NewCapiCalls = << <<"do_characters", str_to_buf(fed'[Len(fed')][2])>> >>
       /\ (\E i \in 1..Len(NewCapiCalls) : NewCapiCalls[i][1] = "do_comment") =>
              Processes("CommentToken")]_vars

-----------------------------------------------------------------------------
(* The scenarios of the specification: one input, cut into chunks in any
   way, then end(). *)

CommentScenario ==
    <<"<", "!", "-", "-", SP, "a", SP, "-", "-", SP, "b", SP, "-", "-", ">">>

DoctypeScenario ==
    <<"<", "!", "D", "O", "C", "T", "Y", "P", "E", SP, "h", "t", "m", "l", ">">>

Scenarios == {CommentScenario, DoctypeScenario}

\* A chunk is the whole rest of the input or a piece of at most MaxPiece
\* characters.
MaxPiece == 3

MaxScenarioFeeds == 15

ScenarioOpts == {TokenizerOpts(e, TRUE, None, None) : e \in BOOLEAN}

InitScenario == InitWith({NoPolicy}, ScenarioOpts)

ScenarioFeed ==
    \E s \in Scenarios, k \in 1..Len(CommentScenario) :
        /\ Len(Concat(fed)) + k <= Len(s)
        /\ k <= MaxPiece \/ Len(Concat(fed)) + k = Len(s)
        /\ SubSeq(s, 1, Len(Concat(fed))) = Concat(fed)
        /\ Feed(SubSeq(s, Len(Concat(fed)) + 1, Len(Concat(fed)) + k), MaxScenarioFeeds)

ScenarioEnd == Concat(fed) \in Scenarios /\ End

\* The tree builder, with default options, is given the first token if
\* it is a doctype; last holds the tree builder afterwards.
DefaultTreeOpts == TreeBuilderOpts(FALSE, FALSE, FALSE)

TreeReceivesDoctype ==
    /\ phase = "ended"
    /\ Tokens[1][1] = "DoctypeToken"
    /\ phase' = "built"
    /\ last' = tb_process_token(TreeBuilder_new(DefaultTreeOpts), Tokens[1], <<>>)
    /\ UNCHANGED <<tok, fed, dropped>>

NextScenario == ScenarioFeed \/ ScenarioEnd \/ TreeReceivesDoctype

SpecScenario == InitScenario /\ [][NextScenario]_vars

\* C24: "<!-- a -- b -->" delivers one ParseError, then the comment
\* " a -- b ", then EOF, and nothing else.
C24_CommentScenario ==
    (phase = "ended" /\ Concat(fed) = CommentScenario) =>
        /\ Len(Tokens) = 3
        /\ Tokens[1][1] = "ParseError"
        /\ Tokens[2] = CommentToken(<<SP, "a", SP, "-", "-", SP, "b", SP>>)
        /\ Tokens[3] = EOFToken
        /\ ~tok.panicked

\* The comment was given in one feed and end() was called.
C24_Witness ==
    /\ phase = "ended"
    /\ fed = <<CommentScenario>>
    /\ Len(Tokens) = 3

\* C25: "<!DOCTYPE html>" delivers the doctype html, without ids and
\* without force_quirks, then EOF, and no ParseError; the tree builder
\* given that doctype in Initial mode appends one doctype to the
\* document, sets NoQuirks and goes to BeforeHtml.
C25_DoctypeScenario ==
    (phase \in {"ended", "built"} /\ Concat(fed) = DoctypeScenario) =>
        /\ Tokens = <<DoctypeToken([name |-> Some(Html), public_id |-> None,
                                    system_id |-> None, force_quirks |-> FALSE]),
                      EOFToken>>
        /\ ~tok.panicked
        /\ phase = "built" =>
              /\ last.sink = << <<"get_document">>,
                                <<"append_doctype_to_document", Html, <<>>, <<>>>>,
                                <<"set_quirks_mode", NoQuirks>> >>
              /\ last.quirks_mode = NoQuirks
              /\ last.mode = BeforeHtml
              /\ last.steps = <<>>

\* The doctype was given in one feed, end() was called and the tree
\* builder was given the doctype token.
C25_Witness ==
    /\ phase = "built"
    /\ fed = <<DoctypeScenario>>
    /\ last.mode = BeforeHtml

-----------------------------------------------------------------------------
(* The lookahead states, step by step: the tokenizer starts in Data, in
   MarkupDeclarationOpen or in AfterDoctypeName and is fed pieces of the
   strings looked for. *)

LookChunks ==
    {<<"-">>, <<"-", "a">>, <<"d", "o">>, <<"c", "t", "y", "p", "e">>,
     <<"D", "O", "C", "T", "Y", "P", "E">>, <<"d", "o", "c", "t", "y", "p", "X">>,
     <<"p", "u", "b", "l">>, <<"i", "c">>, <<"s", "y", "s", "t", "e", "m">>,
     <<"s", "y", "s">>, <<"<", "!">>, <<">">>}

LookStates == {St("MarkupDeclarationOpen"), St("AfterDoctypeName")}

LookOpts ==
    {TokenizerOpts(FALSE, TRUE, Some(s), None) : s \in {Data} \cup LookStates}

InitLookSteps == InitWith({NoPolicy}, LookOpts)

NextLookSteps ==
    (\E input \in LookChunks : FeedCall(input)) \/ RunStep \/ EndCall \/ EofStep

SpecLookSteps == InitLookSteps /\ [][NextLookSteps]_vars

\* The next step() begins with a lookahead.
LookaheadDue ==
    /\ phase \in {"feeding", "ending"}
    /\ ~tok.panicked
    /\ tok.char_ref_tokenizer = None
    /\ tok.state \in LookStates
    /\ IsSome(tok.wait_for) => bq_has(tok.input_buffers, Unwrap(tok.wait_for))

\* The first and the second lookahead of a state.
FirstLook ==
    IF tok.state = St("MarkupDeclarationOpen") THEN <<2, Eq(<<"-", "-">>)>>
    ELSE <<6, EqIgnoreAsciiCase(<<"p", "u", "b", "l", "i", "c">>)>>

SecondLook ==
    IF tok.state = St("MarkupDeclarationOpen")
    THEN <<7, EqIgnoreAsciiCase(<<"d", "o", "c", "t", "y", "p", "e">>)>>
    ELSE <<6, EqIgnoreAsciiCase(<<"s", "y", "s", "t", "e", "m">>)>>

Buffered(m) == bq_flatten(m.input_buffers)

\* What lookahead_and_consume(n, p) called on m must have done to give r.
LookaheadOutcome(m, r, n, p) ==
    /\ [r EXCEPT !.ret = m.ret, !.wait_for = m.wait_for,
                 !.input_buffers = m.input_buffers] = m
    /\ CASE Len(Buffered(m)) >= n /\ Satisfies(p, SubSeq(Buffered(m), 1, n)) ->
              /\ r.ret = Some(TRUE)
              /\ Buffered(r) = SubSeq(Buffered(m), n + 1, Len(Buffered(m)))
              /\ r.wait_for = m.wait_for
         [] Len(Buffered(m)) >= n \/ m.at_eof ->
              /\ r.ret = Some(FALSE)
              /\ Buffered(r) = Buffered(m)
              /\ r.wait_for = m.wait_for
         [] OTHER ->
              /\ r.ret = None
              /\ r.wait_for = Some(n)
              /\ Buffered(r) = Buffered(m)

Looked(m, look) == lookahead_and_consume(m, look[1], look[2])

Unwaiting == [tok EXCEPT !.wait_for = None]

\* C26: lookahead_and_consume(n, p) consumes n characters and gives
\* Some(true) when p holds of them; gives Some(false) with the buffered
\* input as it was when p fails; and, with fewer than n characters and no
\* EOF, gives None, sets wait_for = Some(n) and leaves the input as it
\* was, the step then returning with the state and the tokens unchanged.
C26_LookaheadDiscipline ==
    [][LookaheadDue =>
         /\ LookaheadOutcome(Unwaiting, Looked(Unwaiting, FirstLook),
                             FirstLook[1], FirstLook[2])
         /\ Looked(Unwaiting, FirstLook).ret = Some(FALSE) =>
                LookaheadOutcome(Looked(Unwaiting, FirstLook),
                                 Looked(Looked(Unwaiting, FirstLook), SecondLook),
                                 SecondLook[1], SecondLook[2])
         /\ (\/ Looked(Unwaiting, FirstLook).ret = None
             \/ /\ Looked(Unwaiting, FirstLook).ret = Some(FALSE)
                /\ Looked(Looked(Unwaiting, FirstLook), SecondLook).ret = None) =>
                /\ tok'.state = tok.state
                /\ tok'.sink = tok.sink
                /\ Buffered(tok') = Buffered(tok)
                /\ IsSome(tok'.wait_for)
                /\ tok'.ret]_vars

\* "do" was fed in MarkupDeclarationOpen: it is not "--", seven characters
\* are awaited for "doctype", and the two characters are still buffered.
C26_Witness ==
    /\ tok.state = St("MarkupDeclarationOpen")
    /\ tok.wait_for = Some(7)
    /\ Buffered(tok) = <<"d", "o">>
    /\ Tokens = <<>>
    /\ fed = <<<<"d", "o">>>>

-----------------------------------------------------------------------------
(* Suspension and resumption: whole feed calls with chunks smaller than the
   lookaheads need. *)

MaxWaitFeeds == 4

WaitChunks ==
    {<<"<", "!">>, <<"d">>, <<"o", "c">>, <<"t", "y", "p", "e">>, <<"-">>,
     <<"p", "u", "b">>, <<"l", "i", "c">>, <<"x">>, <<BOM>>}

InitWait == InitWith({NoPolicy}, LookOpts)

NextWait == (\E input \in WaitChunks : Feed(input, MaxWaitFeeds)) \/ End

SpecWait == InitWait /\ [][NextWait]_vars

\* The tokenizer with everything it was waiting on, and input, in one buffer
\* and nothing awaited.
Resumed(m, input) ==
    run([m EXCEPT !.wait_for = None, !.input_buffers = <<Buffered(m) \o input>>])

\* C27: a feed call made while wait_for = Some(n) that leaves fewer than n
\* characters buffered delivers no token, keeps the state and appends its
\* input to the buffered input; the feed call that makes n characters
\* available continues from the same state with all the input, in order.
C27_SuspensionAndResumption ==
    [][(fed' # fed /\ IsSome(tok.wait_for)) =>
         IF Len(Buffered(tok)) + Len(fed'[Len(fed')]) < Unwrap(tok.wait_for)
         THEN /\ Tokens' = Tokens
              /\ tok'.state = tok.state
              /\ tok'.wait_for = tok.wait_for
              /\ Buffered(tok') = Buffered(tok) \o fed'[Len(fed')]
         ELSE /\ tok'.sink = Resumed(tok, fed'[Len(fed')]).sink
              /\ tok'.state = Resumed(tok, fed'[Len(fed')]).state
              /\ tok'.wait_for = Resumed(tok, fed'[Len(fed')]).wait_for
              /\ Buffered(tok') = Buffered(Resumed(tok, fed'[Len(fed')]))]_vars

\* The same, for the feed calls that discard no U+FEFF.
C27_WithoutDiscardedBom ==
    [][(fed' # fed /\ IsSome(tok.wait_for) /\ dropped' = dropped) =>
         IF Len(Buffered(tok)) + Len(fed'[Len(fed')]) < Unwrap(tok.wait_for)
         THEN /\ Tokens' = Tokens
              /\ tok'.state = tok.state
              /\ tok'.wait_for = tok.wait_for
              /\ Buffered(tok') = Buffered(tok) \o fed'[Len(fed')]
         ELSE /\ tok'.sink = Resumed(tok, fed'[Len(fed')]).sink
              /\ tok'.state = Resumed(tok, fed'[Len(fed')]).state
              /\ tok'.wait_for = Resumed(tok, fed'[Len(fed')]).wait_for
              /\ Buffered(tok') = Buffered(Resumed(tok, fed'[Len(fed')]))]_vars

\* "doctype" arrived in three chunks after "<!" and was recognised.
C27_ResumedAfterThreeChunks ==
    /\ fed = <<<<"<", "!">>, <<"d">>, <<"o", "c">>, <<"t", "y", "p", "e">>>>
    /\ tok.state = St("Doctype")
    /\ tok.wait_for = None
    /\ Buffered(tok) = <<>>

-----------------------------------------------------------------------------
(* The accumulators at step boundaries: tags, end tags of text elements,
   comments and doctypes, step by step. *)

AccumChunks ==
    {<<"<", "a", ">">>, <<"<", "/", "a", ">">>, <<"<", "/", "A", ">">>,
     <<"<", "/", "a", SP, "b", ">">>, <<"<", "/", "b", ">">>,
     <<"<", "a", SP, "b", "=", "c", ">">>, <<"<", "a", SP, "b">>,
     <<"<", "!", "-", "-", "x", "-", "-", ">">>, <<"<", "!", "-", "-", "x">>,
     <<"<", "!", "-", "-", "<", "a", ">">>, <<"x">>}

NextAccum ==
    (\E input \in AccumChunks : FeedCall(input)) \/ RunStep \/ EndCall \/ EofStep

SpecAccum == InitSteps /\ [][NextAccum]_vars

\* A step boundary before EOF with the tokenizer in the Data state.
InDataBeforeEof ==
    /\ phase \in {"open", "feeding"}
    /\ ~tok.at_eof
    /\ tok.state = Data

TagAccumulatorsEmpty ==
    /\ tok.current_tag_name = <<>>
    /\ tok.current_tag_attrs = <<>>
    /\ tok.current_attr_name = <<>>
    /\ tok.current_attr_value = <<>>
    /\ tok.current_comment = <<>>

LowerCased(s) == [i \in 1..Len(s) |-> lower_ascii(s[i])]

\* An end tag token of that name has been emitted.
EndTagEmitted(name) ==
    \E i \in 1..Len(Tokens) :
        /\ Tokens[i][1] = "TagToken"
        /\ Tokens[i][3] = EndTag
        /\ Tokens[i][2] = name

\* C28 as stated: in Data at a step boundary before EOF all six
\* accumulators, temp_buf included, are empty.
C28_AccumulatorsEmptyInData ==
    InDataBeforeEof => (TagAccumulatorsEmpty /\ tok.temp_buf = <<>>)

\* C28: in Data at a step boundary before EOF current_tag_name,
\* current_tag_attrs, current_attr_name, current_attr_value and
\* current_comment are empty, and temp_buf is empty or still holds the name,
\* as written in the input, of an end tag that a RawEndTagName state
\* emitted.
C28_AccumulatorHygiene ==
    InDataBeforeEof =>
        /\ TagAccumulatorsEmpty
        /\ tok.temp_buf # <<>> => EndTagEmitted(LowerCased(tok.temp_buf))

\* "</A>" closed the RCDATA element opened by "<a>": the end tag was
\* emitted, the tokenizer is in Data and temp_buf holds "A".
C28_Witness ==
    /\ InDataBeforeEof
    /\ fed = <<<<"<", "a", ">">>, <<"<", "/", "A", ">">>>>
    /\ tok.temp_buf = <<"A">>
    /\ EndTagEmitted(<<"a">>)
    /\ TagAccumulatorsEmpty

-----------------------------------------------------------------------------
(* Character references in Data, in RCDATA and in attribute values, step by
   step. *)

CharRefChunks ==
    {<<"<", "a", ">">>, <<"<", "a", SP, "b", "=">>, <<"<", "a", SP, "b", "=", "\"">>,
     <<"&", "a", "m", "p", ";">>, <<"&", "l", "t">>, <<"&", "b", "n", "e", ";">>,
     <<"&", "x">>, <<"&">>, <<"&", "#", "6", "5", ";">>, <<"&", "#", ";">>,
     <<";">>, <<"x">>}

CharRefPolicies == {NoPolicy, [name |-> <<"a">>, answer |-> Some(RawData(Rcdata))]}

InitCharRef == InitWith(CharRefPolicies, {DefaultOpts})

NextCharRef ==
    (\E input \in CharRefChunks : FeedCall(input)) \/ RunStep \/ EndCall \/ EofStep

SpecCharRef == InitCharRef /\ [][NextCharRef]_vars

WithoutCharRef == [tok EXCEPT !.char_ref_tokenizer = None]

\* What the sub-tokenizer yields at the next step(), and at end().
SteppedCharRef == cr_step(WithoutCharRef, Unwrap(tok.char_ref_tokenizer))

EndedCharRef == cr_end_of_file(WithoutCharRef, Unwrap(tok.char_ref_tokenizer))

\* The characters that a result stands for.
Used(char_ref) ==
    IF char_ref.num_chars = 0 THEN <<"&">>
    ELSE SubSeq(char_ref.chars, 1, char_ref.num_chars)

AsCharacterTokens(chars) == [i \in 1..Len(chars) |-> CharacterTokens(<<chars[i]>>)]

\* The tokenizer went from r.m, where the sub-tokenizer was done, to tok'
\* by handling the result.
ResultHandled(r) ==
    /\ tok'.state = tok.state
    /\ tok'.char_ref_tokenizer = None
    /\ IF tok.state \in {Data, RawData(Rcdata)}
       THEN /\ Tokens' = r.m.sink.tokens \o AsCharacterTokens(Used(cr_get_result(r.t)))
            /\ tok'.current_attr_value = tok.current_attr_value
       ELSE /\ tok.state[1] = "AttributeValue"
            /\ Tokens' = r.m.sink.tokens
            /\ tok'.current_attr_value =
                   tok.current_attr_value \o Used(cr_get_result(r.t))

CharRefDoneAtStep ==
    /\ phase \in {"feeding", "ending"}
    /\ IsSome(tok.char_ref_tokenizer)
    /\ SteppedCharRef.status = Done

CharRefDoneAtEnd ==
    /\ phase = "open"
    /\ phase' = "ending"
    /\ IsSome(tok.char_ref_tokenizer)

\* C29: when the character reference sub-tokenizer is done, the tokenizer
\* takes one "&" for a result of no characters and otherwise the first
\* num_chars characters of the result, in order; in Data and RCDATA it emits
\* them as character tokens, in an attribute value it appends them to
\* current_attr_value and emits nothing; its state is unchanged and
\* char_ref_tokenizer is None afterwards.
C29_CharRefResultHandling ==
    [][/\ CharRefDoneAtStep => ResultHandled(SteppedCharRef)
       /\ CharRefDoneAtEnd => ResultHandled(EndedCharRef)]_vars

\* "&x" in the double-quoted value of attribute b is no reference: the
\* value holds the "&" and the "x" is still to be read.
C29_Witness ==
    /\ fed = <<<<"<", "a", SP, "b", "=", "\"">>, <<"&", "x">>>>
    /\ tok.state[1] = "AttributeValue"
    /\ tok.char_ref_tokenizer = None
    /\ tok.current_attr_value = <<"&">>
    /\ Buffered(tok) = <<"x">>
    /\ Tokens = <<>>

-----------------------------------------------------------------------------
(* Whitespace splitting: the tree builder is given character tokens, and
   step answers Done, Reprocess or SplitWhitespace. *)

MaxSplitTokens == 2

MaxSplitSteps == 6

SplitTexts ==
    {<<"A">>, <<SP>>, <<SP, "A">>, <<"A", SP>>, <<"A", SP, "B">>,
     <<SP, LF, "A", "B">>, <<LF, "A">>}

SplitOracles ==
    UNION {[1..n -> {r \in StepResults : r.effect = "none" /\ r.outcome # "DoneAckSelfClosing"}] :
               n \in 0..MaxSplitSteps}

InitSplit ==
    /\ tok = TreeBuilder_new(DefaultTreeOpts)
    /\ fed = <<>>
    /\ phase = "open"
    /\ last = Call("new", <<>>, 0, 0)
    /\ dropped = {}

ProcessText(x, oracle) ==
    /\ phase = "open"
    /\ Len(fed) < MaxSplitTokens
    /\ tok' = tb_process_token(tok, CharacterTokens(x), oracle)
    /\ tok'.ret
    /\ fed' = Append(fed, CharacterTokens(x))
    /\ last' = Call("process_token", x, Len(tok.steps), Len(tok'.steps))
    /\ UNCHANGED <<phase, dropped>>

NextSplit == \E x \in SplitTexts, oracle \in SplitOracles : ProcessText(x, oracle)

SpecSplit == InitSplit /\ [][NextSplit]_vars

\* The calls of step that the last process_token made: mode, token, outcome.
NewSteps == SubSeq(tok.steps, last.before + 1, last.after)

\* The length of the maximal leading run of buf: the characters up to the
\* first one that differs from buf[1] in being whitespace.
LeadingRun(buf) ==
    CHOOSE k \in 1..Len(buf) :
        /\ \A j \in 1..k : is_ascii_whitespace(buf[j]) = is_ascii_whitespace(buf[1])
        /\ k < Len(buf) => is_ascii_whitespace(buf[k + 1]) # is_ascii_whitespace(buf[1])

LeadingPiece(buf) ==
    tb_CharacterTokens(IF is_ascii_whitespace(buf[1]) THEN SplitStatus_Whitespace
                       ELSE SplitStatus_NotWhitespace,
                       SubSeq(buf, 1, LeadingRun(buf)))

Remainder(buf) == SubSeq(buf, LeadingRun(buf) + 1, Len(buf))

\* The first call after call i that is Done.
NextDone(S, i) ==
    CHOOSE d \in (i + 1)..Len(S) :
        /\ S[d][3] = "Done"
        /\ \A j \in (i + 1)..(d - 1) : S[j][3] # "Done"

\* The strings of the tokens whose call of step was Done, in order.
DonePieces(S) ==
    LET done == SelectSeq(S, LAMBDA e : e[3] = "Done")
    IN [i \in 1..Len(done) |-> done[i][2][3]]

\* C30: after step returns SplitWhitespace(buf), the next token handed to
\* step is the maximal leading run of buf, tagged Whitespace or
\* NotWhitespace; it is the token of every call up to the next Done, and
\* then the rest of buf follows as a NotSplit token if it is not empty and
\* processing ends if it is; no token handed to step is empty, the pieces
\* that were Done concatenate to the text given, and an empty buf ends
\* processing without a further call of step.
C30_WhitespaceSplitting ==
    /\ last.op = "process_token" =>
        /\ \A i \in 1..Len(NewSteps) :
              /\ NewSteps[i][2][3] # <<>>
              /\ NewSteps[i][3] = "SplitWhitespace" =>
                    /\ NewSteps[i][2][2] = NotSplit
                    /\ i < Len(NewSteps)
                    /\ \E d \in (i + 1)..Len(NewSteps) : NewSteps[d][3] = "Done"
                    /\ \A j \in (i + 1)..NextDone(NewSteps, i) :
                          NewSteps[j][2] = LeadingPiece(NewSteps[i][2][3])
                    /\ IF Remainder(NewSteps[i][2][3]) = <<>>
                       THEN NextDone(NewSteps, i) = Len(NewSteps)
                       ELSE /\ NextDone(NewSteps, i) < Len(NewSteps)
                            /\ NewSteps[NextDone(NewSteps, i) + 1][2] =
                                   tb_CharacterTokens(NotSplit, Remainder(NewSteps[i][2][3]))
        /\ NewSteps # <<>> => NewSteps[1][2] = tb_CharacterTokens(NotSplit, last.input)
        /\ NewSteps # <<>> => Concat(DonePieces(NewSteps)) = last.input
    /\ \A oracle \in {<<>>, <<StepResult("Done", Initial, "none")>>} :
          split_whitespace(tok, <<>>, <<>>, oracle).steps = tok.steps

\* "A B" was split into "A", " " and "B", each Done in its turn.
C30_Witness ==
    /\ last.op = "process_token"
    /\ last.input = <<"A", SP, "B">>
    /\ Len(NewSteps) = 6
    /\ DonePieces(NewSteps) = <<<<"A">>, <<SP>>, <<"B">>>>
    /\ NewSteps[4][2] = tb_CharacterTokens(SplitStatus_Whitespace, <<SP>>)
    /\ NewSteps[5][2] = tb_CharacterTokens(NotSplit, <<"B">>)

-----------------------------------------------------------------------------
(* End of input inside script data: the tokenizer starts in the script data
   state and is fed the beginnings of "<!--". *)

MaxScriptFeeds == 3

ScriptChunks == {<<"<">>, <<"!">>, <<"<", "!">>, <<"-">>, <<"<", "!", "-">>, <<"x">>}

ScriptOpts ==
    {TokenizerOpts(e, TRUE, Some(RawData(ScriptData)), Some(<<"a">>)) : e \in BOOLEAN}

InitScriptEof == InitWith({NoPolicy}, ScriptOpts)

NextScriptEof == (\E input \in ScriptChunks : Feed(input, MaxScriptFeeds)) \/ End

SpecScriptEof == InitScriptEof /\ [][NextScriptEof]_vars

\* end() is called with the tokenizer in an escape-start state.
EndsInEscapeStart ==
    /\ phase = "open"
    /\ phase' = "ended"
    /\ tok.state \in {StK("ScriptDataEscapeStart", Escaped), St("ScriptDataEscapeStartDash")}

\* C31: EOF in ScriptDataEscapeStart(Escaped) and in
\* ScriptDataEscapeStartDash is handled as EOF in the script data state:
\* end() emits the EOF token and nothing else, no ParseError.
C31_EscapeStartEof ==
    [][EndsInEscapeStart =>
          /\ Tokens' = Append(Tokens, EOFToken)
          /\ Tokens' = end([tok EXCEPT !.state = RawData(ScriptData)]).sink.tokens]_vars

\* The same for ScriptDataEscapeStartDash alone.
C31_EscapeStartDashEof ==
    [][(EndsInEscapeStart /\ tok.state = St("ScriptDataEscapeStartDash")) =>
          Tokens' = Append(Tokens, EOFToken)]_vars

\* end() was called after "<!-" in script data and only the EOF token
\* followed.
C31_DashWitness ==
    /\ phase = "ended"
    /\ Concat(fed) = <<"<", "!", "-">>
    /\ Tokens[Len(Tokens)] = EOFToken
    /\ \A i \in 1..Len(Tokens) : Tokens[i][1] # "ParseError"

-----------------------------------------------------------------------------
(* Reconsuming: the tokenizer starts in any state and is fed single
   characters, step by step. *)

ReconsumeChunks ==
    {<<"<">>, <<">">>, <<"/">>, <<"!">>, <<"-">>, <<"a">>, <<"A">>, <<SP>>,
     <<"=">>, <<"\"">>, <<"&">>, <<CR>>, <<LF>>}

InitReconsume == InitWith({NoPolicy}, NewlineOpts)

NextReconsume ==
    (\E input \in ReconsumeChunks : FeedCall(input)) \/ RunStep \/ EndCall \/ EofStep

SpecReconsume == InitReconsume /\ [][NextReconsume]_vars

\* C32: reconsume is false whenever feed or end has returned and while the
\* EOF table runs; a step that sets it returns true, so that another step
\* follows at once, in a state that reads through get_char, neither a
\* lookahead state nor the character reference tokenizer; and that step
\* reads the reconsumed character, taking nothing from the buffers.
C32_ReconsumeNeverPending ==
    [][/\ phase' \in {"open", "eof", "ended"} => ~tok'.reconsume
       /\ tok'.reconsume =>
             /\ phase' \in {"feeding", "ending"}
             /\ tok'.ret
             /\ ~tok'.panicked
             /\ tok'.char_ref_tokenizer = None
             /\ tok'.wait_for = None
             /\ tok'.state \notin LookStates
       /\ tok.reconsume =>
             /\ Buffered(tok') = Buffered(tok)
             /\ tok'.current_char = tok.current_char]_vars

\* "<" then " ": TagOpen has given the space back to Data, which is about to
\* read it.
C32_Witness ==
    /\ fed = <<<<"<">>, <<SP>>>>
    /\ tok.opts.initial_state = Some(Data)
    /\ tok.reconsume
    /\ tok.state = Data
    /\ tok.current_char = SP
    /\ phase = "feeding"

\* C33: once end() has set at_eof, wait_for is None and neither lookahead
\* of a lookahead state returns None; wait_for is Some(n) only before EOF,
\* in MarkupDeclarationOpen or AfterDoctypeName, with n one of 2, 6, 7.
C33_LookaheadNeverBlocksAtEof ==
    /\ tok.at_eof => tok.wait_for = None
    /\ (tok.at_eof /\ LookaheadDue) =>
          /\ Looked(Unwaiting, FirstLook).ret # None
          /\ Looked(Unwaiting, FirstLook).ret = Some(FALSE) =>
                Looked(Looked(Unwaiting, FirstLook), SecondLook).ret # None
    /\ IsSome(tok.wait_for) =>
          /\ ~tok.at_eof
          /\ tok.state \in LookStates
          /\ Unwrap(tok.wait_for) \in {2, 6, 7}

\* end() was called while MarkupDeclarationOpen waited for a second
\* character after "-": the lookaheads are about to run at EOF.
C33_Witness ==
    /\ phase = "ending"
    /\ tok.at_eof
    /\ tok.state = St("MarkupDeclarationOpen")
    /\ Buffered(tok) = <<"-">>
    /\ tok.wait_for = None
    /\ LookaheadDue

-----------------------------------------------------------------------------
(* OwnedDom sink: the links between parents and children *)

Occurrences_in(children, h) == Cardinality({i \in 1..Len(children) : children[i] = h})

\* Every node that has a parent is listed once by it, and every node
\* listed has the lister as its parent (so that no node is on two lists).
TreeConsistent(sink) ==
    /\ \A h \in Handles(sink) :
          sink.nodes[h].parent # Handle_null =>
              Occurrences_in(sink.nodes[sink.nodes[h].parent].children, h) = 1
    /\ \A p \in Handles(sink) :
          \A i \in 1..Len(sink.nodes[p].children) :
              sink.nodes[sink.nodes[p].children[i]].parent = p
    /\ \A h \in Handles(sink), p \in Handles(sink), q \in Handles(sink) :
          (Occurrences_in(sink.nodes[p].children, h) > 0
             /\ Occurrences_in(sink.nodes[q].children, h) > 0) => p = q

AppendsAttachedNode ==
    /\ last'.op = "append"
    /\ last'.input[2][1] = "AppendNode"
    /\ tok.nodes[last'.input[2][2]].parent # Handle_null

InsertedNodeBefore ==
    /\ last'.op = "append_before_sibling"
    /\ last'.input[2][1] = "AppendNode"
    /\ last'.input[2][2] # last'.input[1]
    /\ tok'.ret = Ok

Without(children, h) == SelectSeq(children, LAMBDA c : c # h)

\* node stands right before sibling in the list.
RightBefore(children, node, sibling) ==
    \E i \in 1..(Len(children) - 1) : children[i] = node /\ children[i + 1] = sibling

\* node stood before sibling in the list of the parent they share.
StoodBefore(sink, node, sibling) ==
    /\ sink.nodes[node].parent = sink.nodes[sibling].parent
    /\ \E i \in 1..Len(sink.nodes[sink.nodes[sibling].parent].children) :
          \E j \in (i + 1)..Len(sink.nodes[sink.nodes[sibling].parent].children) :
              /\ sink.nodes[sink.nodes[sibling].parent].children[i] = node
              /\ sink.nodes[sink.nodes[sibling].parent].children[j] = sibling

\* C35: after append_before_sibling(sibling, AppendNode(node)) returned Ok,
\* node is the immediate previous sibling of sibling in the children of
\* sibling's parent, wherever node was before, and the other children of
\* that parent are in the order they were in.
C35_InsertedRightBeforeSibling ==
    [][InsertedNodeBefore =>
          /\ RightBefore(tok'.nodes[tok'.nodes[last'.input[1]].parent].children,
                         last'.input[2][2], last'.input[1])
          /\ Without(tok'.nodes[tok'.nodes[last'.input[1]].parent].children,
                     last'.input[2][2])
               = Without(tok.nodes[tok.nodes[last'.input[1]].parent].children,
                         last'.input[2][2])]_vars

\* The same for the nodes that did not stand before the sibling under the
\* same parent.
C35_UnlessMovedForward ==
    [][(InsertedNodeBefore /\ ~StoodBefore(tok, last'.input[2][2], last'.input[1])) =>
          /\ RightBefore(tok'.nodes[tok'.nodes[last'.input[1]].parent].children,
                         last'.input[2][2], last'.input[1])
          /\ Without(tok'.nodes[tok'.nodes[last'.input[1]].parent].children,
                     last'.input[2][2])
               = Without(tok.nodes[tok.nodes[last'.input[1]].parent].children,
                         last'.input[2][2])]_vars

\* The second child of the document was moved in front of the first.
C35_MovedBackWitness ==
    /\ last.op = "append_before_sibling"
    /\ last.input = <<2, AppendNode(3)>>
    /\ tok.nodes[1].children = <<3, 2>>
    /\ tok.ret = Ok

-----------------------------------------------------------------------------
(* The tree builder and line feeds: character tokens that begin with LF,
   before and after a start tag "pre" and a ParseError token. *)

IgnoreLfTokens ==
    {ParseError("e"),
     TagToken(StartTag, <<"p", "r", "e">>, FALSE, <<>>),
     CharacterTokens(<<LF>>), CharacterTokens(<<LF, "A">>),
     CharacterTokens(<<LF, LF, "A">>), CharacterTokens(<<"A">>),
     CharacterTokens(<<>>)}

NextIgnoreLf ==
    \E token \in IgnoreLfTokens, oracle \in Oracles : ProcessToken(token, oracle)

SpecIgnoreLf == InitTree /\ [][NextIgnoreLf]_vars

\* The text of a character token as process_token must hand it on: less
\* one leading LF if ignore_lf was set.
AfterIgnoredLf(ignore_lf, x) ==
    IF ignore_lf /\ x # <<>> /\ x[1] = LF THEN SubSeq(x, 2, Len(x)) ELSE x

AddedSteps == SubSeq(tok'.steps, Len(tok.steps) + 1, Len(tok'.steps))

\* C36: a character token given while ignore_lf is set loses exactly one
\* leading LF; what is left reaches step unsplit, or the token is dropped
\* if nothing is left; no empty character token reaches step; after every
\* process_token ignore_lf is false unless a rule of that call set it.
C36_IgnoreLf ==
    [][fed' # fed =>
          /\ Processes("CharacterTokens") =>
                IF AfterIgnoredLf(tok.ignore_lf, fed'[Len(fed')][2]) = <<>>
                THEN tok'.steps = tok.steps /\ tok'.sink = tok.sink
                ELSE /\ AddedSteps # <<>>
                     /\ AddedSteps[1][2] =
                            tb_CharacterTokens(
                                NotSplit, AfterIgnoredLf(tok.ignore_lf, fed'[Len(fed')][2]))
          /\ \A i \in 1..Len(AddedSteps) :
                AddedSteps[i][2][1] = "CharacterTokens" => AddedSteps[i][2][3] # <<>>
          /\ tok'.ignore_lf => CallCount(NewCalls, "create_element") > 0
          /\ AddedSteps = <<>> => ~tok'.ignore_lf]_vars

\* After the start tag "pre" set ignore_lf, the token "\n\nA" reached step
\* as "\nA".
C36_Witness ==
    /\ Len(fed) = 2
    /\ fed[1][1] = "TagToken"
    /\ fed[2] = CharacterTokens(<<LF, LF, "A">>)
    /\ Len(tok.steps) = 2
    /\ tok.steps[2][2] = tb_CharacterTokens(NotSplit, <<LF, "A">>)
    /\ ~tok.ignore_lf

-----------------------------------------------------------------------------
(* C-ABI token sink: start tags *)

ProcessesStartTag == Processes("TagToken") /\ fed'[Len(fed')][3] = StartTag

\* The calls a start tag token is to cause: do_start_tag, then do_tag_attr
\* for each attribute in order; a null callback is left out.
StartTagCall(sink, tag) ==
    IF "do_start_tag" \in sink.ops
    THEN << <<"do_start_tag", h5e_buf_from_slice(tag[2]), c_bool(tag[4]), Len(tag[5])>> >>
    ELSE <<>>

TagAttrCalls(sink, tag) ==
    IF "do_tag_attr" \in sink.ops
    THEN [i \in 1..Len(tag[5]) |->
             <<"do_tag_attr", h5e_buf_from_slice(tag[5][i].name), str_to_buf(tag[5][i].value)>>]
    ELSE <<>>

\* C37: a start tag token causes one do_start_tag call with the tag name,
\* the self-closing flag and the number of attributes, then one
\* do_tag_attr call per attribute, in order, each with that attribute's
\* name and value; a null callback is skipped and nothing else happens.
C37_StartTagCalls ==
    [][ProcessesStartTag =>
          /\ NewCapiCalls =
                StartTagCall(tok, fed'[Len(fed')]) \o TagAttrCalls(tok, fed'[Len(fed')])
          /\ tok'.ops = tok.ops]_vars

\* The same without the names given to do_tag_attr.
C37_StartTagCallsButNames ==
    [][ProcessesStartTag =>
          /\ Len(NewCapiCalls) =
                Len(StartTagCall(tok, fed'[Len(fed')])) + Len(TagAttrCalls(tok, fed'[Len(fed')]))
          /\ \A i \in 1..Len(NewCapiCalls) :
                \/ NewCapiCalls[i] =
                       (StartTagCall(tok, fed'[Len(fed')])
                            \o TagAttrCalls(tok, fed'[Len(fed')]))[i]
                \/ /\ NewCapiCalls[i][1] = "do_tag_attr"
                   /\ NewCapiCalls[i][3] =
                          (StartTagCall(tok, fed'[Len(fed')])
                               \o TagAttrCalls(tok, fed'[Len(fed')]))[i][3]
          /\ tok'.ops = tok.ops]_vars

\* The start tag "a" with the attributes x and y went to a sink with all
\* callbacks: three calls, the attribute values in order.
C37_ValuesWitness ==
    /\ Len(fed) = 1
    /\ fed[1][1] = "TagToken"
    /\ Len(fed[1][5]) = 2
    /\ tok.ops = h5e_token_ops
    /\ Len(tok.calls) = 3
    /\ tok.calls[2][3] = str_to_buf(<<"1">>)
    /\ tok.calls[3][3] = str_to_buf(<<"2">>)

-----------------------------------------------------------------------------
(* The string helpers of the tokenizer, applied to their own arguments:
   `tok` holds the Option<String> and the String the calls mutate. *)

MaxHelperCalls == 3

HelperChars == {"x", "y"}

HelperOptions == {None, Some(<<>>), Some(<<"y">>)}

HelperStrings == {<<>>, <<"f">>, <<"b", "a">>}

InitHelpers ==
    /\ tok \in {[opt_str |-> o, lhs |-> s] : o \in HelperOptions, s \in HelperStrings}
    /\ fed = <<>>
    /\ phase = "open"
    /\ last = Call("new", <<>>, 0, 0)
    /\ dropped = {}

\* option_push_char(&mut opt_str, c)
PushChar(c) ==
    /\ Len(fed) < MaxHelperCalls
    /\ tok' = [tok EXCEPT !.opt_str = option_push_char(@, c)]
    /\ fed' = Append(fed, <<"option_push_char", c>>)
    /\ last' = Call("option_push_char", c, tok.opt_str, tok'.opt_str)
    /\ UNCHANGED <<phase, dropped>>

\* append_strings(&mut lhs, rhs)
AppendStrings(rhs) ==
    /\ Len(fed) < MaxHelperCalls
    /\ tok' = [tok EXCEPT !.lhs = append_strings(@, rhs)]
    /\ fed' = Append(fed, <<"append_strings", rhs>>)
    /\ last' = Call("append_strings", rhs, tok.lhs, tok'.lhs)
    /\ UNCHANGED <<phase, dropped>>

NextHelpers ==
    \/ \E c \in HelperChars : PushChar(c)
    \/ \E rhs \in HelperStrings : AppendStrings(rhs)

SpecHelpers == InitHelpers /\ [][NextHelpers]_vars

\* The content of an Option<String>, the empty string when it is None.
PreviousContent(opt) == IF opt = None THEN <<>> ELSE opt[1]

\* C38: option_push_char(opt, c) leaves opt as Some(s ++ c), s being the
\* previous content of opt and the empty string when opt was None; None and
\* Some("") both become Some(c).
C38_OptionPushChar ==
    last.op = "option_push_char" =>
        /\ tok.opt_str = last.after
        /\ Len(last.after) = 1
        /\ last.after[1] = PreviousContent(last.before) \o <<last.input>>
        /\ last.before \in {None, Some(<<>>)} => last.after = Some(<<last.input>>)

\* A character was pushed to None and the option now holds just that character.
C38_Witness ==
    /\ last.op = "option_push_char"
    /\ last.before = None
    /\ last.input = "x"
    /\ tok.opt_str = Some(<<"x">>)

\* C39: append_strings(lhs, rhs) leaves lhs equal to its previous content
\* followed by rhs, whether lhs was empty or not; an empty lhs takes rhs.
C39_AppendStrings ==
    last.op = "append_strings" =>
        /\ tok.lhs = last.after
        /\ Len(last.after) = Len(last.before) + Len(last.input)
        /\ \A i \in 1..Len(last.before) : last.after[i] = last.before[i]
        /\ \A i \in 1..Len(last.input) :
               last.after[Len(last.before) + i] = last.input[i]
        /\ last.before = <<>> => last.after = last.input

\* A non-empty string was appended to a non-empty one.
C39_Witness ==
    /\ last.op = "append_strings"
    /\ last.before = <<"f">>
    /\ last.input = <<"b", "a">>
    /\ tok.lhs = <<"f", "b", "a">>

====
